---- MODULE Spec2Model ----
(***************************************************************************)
(* Signal extraction and lifecycle engine of telegram-signal-parser.       *)
(*                                                                         *)
(* Prices are integers in hundredths of a price unit (2000.00 -> 200000),  *)
(* timestamps are whole seconds.  A message text is represented by what    *)
(* the parser's patterns find in it (symbol spelling, direction word,      *)
(* entry numbers, stop-loss number, take-profit numbers); the text id is   *)
(* kept as the raw message.  An MD5 digest is represented by the content   *)
(* string it is computed from.                                             *)
(***************************************************************************)
EXTENDS Integers, Sequences, FiniteSets, TLC

(* ---------------------------- bounds ---------------------------------- *)
(* Time is sampled: it starts at 0 and advances by one of TickSteps while  *)
(* it stays within MaxTime, which puts a record's age on both sides of the *)
(* duplicate window (4 s and 5 s).                                         *)
MaxTime == 5

(* The sweeper's clock is sampled the same way around the validity window: *)
(* SweepSteps puts a record's age at 3599, 3600 and 3601 seconds.          *)
MaxSweepTime == 3601

(* A sampled text has one header line and up to MaxBodyLines lines after  *)
(* it: enough for a take-profit block to open, continue and be closed.    *)
MaxBodyLines == 3

(* At most MaxTasks parser tasks are created in one run of the web        *)
(* application: enough for a task to be created beside an unfinished one  *)
(* and for one more after both.                                           *)
MaxTasks == 3

(* ------------------------ program constants --------------------------- *)
adjustment == 50
DuplicateWindow == 5
DefaultMaxSl == 1500
TestChannel == 0 - 123456789
allowed_symbols == {"XAUUSD", "GOLD"}
filter_symbols == {"XAUUSD", "GOLD"}

ExpiryWindow == 3600
NULL == 0 - 1
(* Sampled inputs: two monitored channels that both carry message id 1,    *)
(* two settings of MAX_SL_DISTANCE, one id drawn by the test endpoint.     *)
monitored_channels == {1, 2}
MsgIds == {1}
TickSteps == {4, 5}
MaxSlValues == {DefaultMaxSl, 1000}
TestMsgIds == {1000}

SweepSteps == {1800, 1801, 3599}
SweepTextIds == {1, 3}

(* Sampled validator inputs, in cents, as the extractor's patterns can     *)
(* read them: entries and stop-losses of one digit or more, take-profits   *)
(* of three digits or more.                                                *)
EntrySamples == {<<0>>, <<1000>>, <<20000>>, <<20000, 20200>>, <<204807>>, <<409597>>}
SlSamples == {30, 18000, 19000, 19500, 20500, 21500, 203357, 411047}
TpSamples == {18500, 19000, 19500, 20100, 21000, 22000, 206000}

(* Sampled hasher inputs: two wordings of the instrument, single and      *)
(* range entries, and every ordering of one to three take-profits.        *)
HashSymbols == {"XAUUSD", "GOLD"}
HashEntries == {<<200000>>, <<200000, 200200>>}
HashStops == {199000, 201000}
HashTps == {198000, 201000, 202000}

(* Sampled extractor inputs: the settings of allowed symbols.             *)
AllowedSamples == {{"XAUUSD", "GOLD"}, {"GOLD"}, {"EURUSD"}}

(* ------------------------- message texts ------------------------------ *)
(* 1: "XAUUSD BUY Entry: 2000 SL: 1990 TP: 2010"                           *)
(* 2: "GOLD LONG @ 2000 SL 1990 TP 2010"        (same signal, reworded)    *)
(* 3: "XAUUSD SELL Entry: 2002-2000 SL: 2010 TP: 1990 1980 1970"           *)
(* 4: "XAUUSD BUY Entry: 2000 SL: 2005 TP: 2010" (stop-loss above entry)   *)
(* 5: "XAUUSD BUY Entry: 2000 TP: 2010"          (no stop-loss)            *)
(* 6: "XAU/USD BUY Entry: 2000 SL: 1990 TP: 2010"                          *)
(* 7: ""                                                                   *)
(* 8: "XAUUSD BUY Entry: 2000 SL: 1990 TP: 2010 2020 2030 2040"            *)
(* 9: "XAUUSD BUY Entry: 2000 SL: 1990 TP: 2010 2020 2030 2050"            *)
Texts ==
  << [blank |-> FALSE, sym |-> "XAUUSD", dir |-> "BUY",  entry |-> <<200000>>,
      sl |-> <<199000>>, tps |-> <<201000>>],
     [blank |-> FALSE, sym |-> "GOLD",   dir |-> "LONG", entry |-> <<200000>>,
      sl |-> <<199000>>, tps |-> <<201000>>],
     [blank |-> FALSE, sym |-> "XAUUSD", dir |-> "SELL", entry |-> <<200200, 200000>>,
      sl |-> <<201000>>, tps |-> <<199000, 198000, 197000>>],
     [blank |-> FALSE, sym |-> "XAUUSD", dir |-> "BUY",  entry |-> <<200000>>,
      sl |-> <<200500>>, tps |-> <<201000>>],
     [blank |-> FALSE, sym |-> "XAUUSD", dir |-> "BUY",  entry |-> <<200000>>,
      sl |-> <<>>,       tps |-> <<201000>>],
     [blank |-> FALSE, sym |-> "XAU/USD", dir |-> "BUY", entry |-> <<200000>>,
      sl |-> <<199000>>, tps |-> <<201000>>],
     [blank |-> TRUE,  sym |-> "NONE",   dir |-> "NONE", entry |-> <<>>,
      sl |-> <<>>,       tps |-> <<>>],
     [blank |-> FALSE, sym |-> "XAUUSD", dir |-> "BUY",  entry |-> <<200000>>,
      sl |-> <<199000>>, tps |-> <<201000, 202000, 203000, 204000>>],
     [blank |-> FALSE, sym |-> "XAUUSD", dir |-> "BUY",  entry |-> <<200000>>,
      sl |-> <<199000>>, tps |-> <<201000, 202000, 203000, 205000>>] >>

(* The handlers are fed texts 1 to 7; texts 8 and 9, with a fourth        *)
(* take-profit, are fed where revisions are examined.                     *)
TextIds == 1..7
RevisionTextIds == {1, 8, 9}

(* store: the signals table; now: the clock; max_sl_distance: the setting *)
(* the validator reads; last: the handler that ran last and its outcome;  *)
(* inflight: the write a second parser process working on the same        *)
(* database file has decided on but not yet sent to the store.            *)
(* expiry_checker_task: the state of the sweeper's background task;       *)
(* parser_state: the web application's record of the parser (is_running,  *)
(* task); tasks: the parser tasks created so far, each with its position  *)
(* in run_parser and whether a cancellation is pending for it.            *)
VARIABLES store, now, max_sl_distance, last, inflight,
          expiry_checker_task, parser_state, tasks
vars == <<store, now, max_sl_distance, last, inflight,
          expiry_checker_task, parser_state, tasks>>
web == <<expiry_checker_task, parser_state, tasks>>

(* --------------------------- small helpers ---------------------------- *)
Min2(a, b) == IF a <= b THEN a ELSE b
Max2(a, b) == IF a >= b THEN a ELSE b

RECURSIVE Dedup(_, _)
Dedup(s, acc) ==
  IF s = <<>> THEN acc
  ELSE Dedup(Tail(s), IF \E i \in 1..Len(acc) : acc[i] = Head(s)
                      THEN acc ELSE Append(acc, Head(s)))

RECURSIVE InsertSorted(_, _)
InsertSorted(x, s) ==
  IF s = <<>> THEN <<x>>
  ELSE IF x <= Head(s) THEN <<x>> \o s
  ELSE <<Head(s)>> \o InsertSorted(x, Tail(s))

RECURSIVE sorted(_)
sorted(s) == IF s = <<>> THEN <<>> ELSE InsertSorted(Head(s), sorted(Tail(s)))

(* ------------------------------ parser -------------------------------- *)
(* A message text as the patterns see it: a sequence of lines, each a     *)
(* sequence of tokens, a token being a word or a number (in cents).       *)
Word(w) == [k |-> "word", w |-> w, n |-> 0]
Num(n) == [k |-> "num", w |-> "", n |-> n]

SymbolWords == {"XAUUSD", "XAU/USD", "GOLD"}
DirectionWords == {"BUY", "SELL", "LONG", "SHORT"}
EntryWords == {"ENTRY", "@"}
RangeWords == {"-", "TO"}
StopLossWords == {"SL", "SL:", "STOP LOSS"}
TakeProfitWords == {"TP", "TAKE PROFIT"}
BlockEndWords == {"ENTRY", "STOP LOSS", "SL:"}

IsWord(tok, words) == tok.k = "word" /\ tok.w \in words
IsNum(tok) == tok.k = "num"
(* \d{3,}(?:\.\d+)? : a number of three or more integer digits.           *)
IsLevel(tok) == tok.k = "num" /\ tok.n >= 10000

Least(S) == IF S = {} THEN 0 ELSE CHOOSE i \in S : \A j \in S : i <= j

RECURSIVE Flatten(_)
Flatten(lines) == IF lines = <<>> THEN <<>> ELSE Head(lines) \o Flatten(Tail(lines))

(* keyword[^0-9]*(number): the first number after position k.             *)
NumberAfter(toks, k) == Least({j \in (k + 1)..Len(toks) : IsNum(toks[j])})

search_symbol(toks) ==
  LET i == Least({j \in 1..Len(toks) : IsWord(toks[j], SymbolWords)})
  IN  IF i = 0 THEN "NONE" ELSE toks[i].w

search_direction(toks) ==
  LET i == Least({j \in 1..Len(toks) : IsWord(toks[j], DirectionWords)})
  IN  IF i = 0 THEN "NONE" ELSE toks[i].w

(* entry_range, then entry_single: the numbers in the order written.      *)
search_entry(toks) ==
  LET keys == {k \in 1..Len(toks) : IsWord(toks[k], EntryWords) /\ NumberAfter(toks, k) # 0}
      ranges == {k \in keys \ {i \in keys : toks[i].w = "@"} :
                   LET j == NumberAfter(toks, k)
                   IN  /\ j + 2 <= Len(toks)
                       /\ IsWord(toks[j + 1], RangeWords)
                       /\ IsNum(toks[j + 2])}
  IN  IF ranges # {}
      THEN LET j == NumberAfter(toks, Least(ranges)) IN <<toks[j].n, toks[j + 2].n>>
      ELSE IF keys # {} THEN <<toks[NumberAfter(toks, Least(keys))].n>>
      ELSE <<>>

search_stop_loss(toks) ==
  LET keys == {k \in 1..Len(toks) : IsWord(toks[k], StopLossWords) /\ NumberAfter(toks, k) # 0}
  IN  IF keys # {} THEN <<toks[NumberAfter(toks, Least(keys))].n>> ELSE <<>>

Levels(toks, from) ==
  LET idx == {j \in from..Len(toks) : IsLevel(toks[j])}
      order == CHOOSE f \in [1..Cardinality(idx) -> idx] :
                 \A a, b \in 1..Cardinality(idx) : a < b => f[a] < f[b]
  IN  [a \in 1..Cardinality(idx) |-> toks[order[a]].n]

RECURSIVE all_tps_whole_line(_, _, _)
all_tps_whole_line(lines, in_tp_block, acc) ==
  IF lines = <<>> THEN acc
  ELSE LET line == Head(lines)
           tp_match == Least({j \in 1..Len(line) : IsWord(line[j], TakeProfitWords)})
       IN  IF tp_match # 0
           THEN all_tps_whole_line(Tail(lines), TRUE, acc \o Levels(line, 1))
           ELSE IF ~in_tp_block THEN all_tps_whole_line(Tail(lines), FALSE, acc)
           ELSE IF \E j \in 1..Len(line) : IsWord(line[j], BlockEndWords)
                THEN all_tps_whole_line(Tail(lines), FALSE, acc)
           ELSE IF Levels(line, 1) = <<>>
                THEN all_tps_whole_line(Tail(lines), line # <<>>, acc)
           ELSE all_tps_whole_line(Tail(lines), TRUE, acc \o Levels(line, 1))

(* The loop of _extract_take_profits over the lines, before the final     *)
(* removal of duplicates.                                                 *)
RECURSIVE all_tps(_, _, _)
all_tps(lines, in_tp_block, acc) ==
  IF lines = <<>> THEN acc
  ELSE LET line == Head(lines)
           tp_match == Least({j \in 1..Len(line) : IsWord(line[j], TakeProfitWords)})
       IN  IF tp_match # 0
           THEN all_tps(Tail(lines), TRUE, acc \o Levels(line, tp_match + 1))
           ELSE IF ~in_tp_block THEN all_tps(Tail(lines), FALSE, acc)
           ELSE IF \E j \in 1..Len(line) : IsWord(line[j], BlockEndWords)
                THEN all_tps(Tail(lines), FALSE, acc)
           ELSE IF Levels(line, 1) = <<>>
                THEN all_tps(Tail(lines), line # <<>>, acc)
           ELSE all_tps(Tail(lines), TRUE, acc \o Levels(line, 1))

(* What the patterns find in a text of lines.                             *)
search(lines) ==
  [blank |-> Flatten(lines) = <<>>,
   sym |-> search_symbol(Flatten(lines)),
   dir |-> search_direction(Flatten(lines)),
   entry |-> search_entry(Flatten(lines)),
   sl |-> search_stop_loss(Flatten(lines)),
   tps |-> all_tps(lines, FALSE, <<>>)]

NotASignal == [ok |-> FALSE]

_extract_symbol(text) ==
  IF text.sym \in {"XAUUSD", "XAU/USD", "GOLD"}
  THEN LET sym == IF text.sym = "XAU/USD" THEN "XAUUSD" ELSE text.sym
       IN  IF sym \in {"XAUUSD", "GOLD"} THEN "XAUUSD" ELSE sym
  ELSE "NONE"

_extract_direction(text) ==
  IF text.dir \in {"BUY", "SELL", "LONG", "SHORT"}
  THEN IF text.dir \in {"BUY", "LONG"} THEN "BUY" ELSE "SELL"
  ELSE "NONE"

_extract_entry_range_as_written(text) ==
  IF Len(text.entry) >= 2 THEN <<text.entry[1], text.entry[2]>>
  ELSE IF Len(text.entry) = 1 THEN <<text.entry[1], text.entry[1]>>
  ELSE <<NULL, NULL>>

_extract_entry_range(text) ==
  IF Len(text.entry) >= 2
  THEN <<Min2(text.entry[1], text.entry[2]), Max2(text.entry[1], text.entry[2])>>
  ELSE IF Len(text.entry) = 1 THEN <<text.entry[1], text.entry[1]>>
  ELSE <<NULL, NULL>>

_extract_stop_loss(text) == IF Len(text.sl) >= 1 THEN text.sl[1] ELSE NULL

_extract_take_profits(text) == Dedup(text.tps, <<>>)

_adjust_prices_same_sign(signal) ==
  [signal EXCEPT !.stop_loss = @ - adjustment,
     !.take_profits = [i \in 1..Len(@) |-> @[i] + adjustment]]

_adjust_prices(signal) ==
  IF signal.direction = "BUY"
  THEN [signal EXCEPT !.stop_loss = @ - adjustment,
          !.take_profits = [i \in 1..Len(@) |-> @[i] + adjustment]]
  ELSE [signal EXCEPT !.stop_loss = @ + adjustment,
          !.take_profits = [i \in 1..Len(@) |-> @[i] - adjustment]]

(* parse with the parser's allowed_symbols given: the client constructs   *)
(* the parser with settings.filter_symbols.                               *)
SignalParser_parse_optional_sl(text, allowed) ==
  LET symbol == _extract_symbol(text)
      direction == _extract_direction(text)
      entry == _extract_entry_range(text)
      stop_loss == _extract_stop_loss(text)
      take_profits == _extract_take_profits(text)
  IN  IF symbol = "NONE" \/ symbol \notin allowed THEN NotASignal
      ELSE IF direction = "NONE" THEN NotASignal
      ELSE IF entry[1] = NULL THEN NotASignal
      ELSE IF take_profits = <<>> THEN NotASignal
      ELSE _adjust_prices([ok |-> TRUE, direction |-> direction,
                           entry_min |-> entry[1], entry_max |-> entry[2],
                           stop_loss |-> stop_loss, take_profits |-> take_profits,
                           symbol |-> "XAUUSD"])

SignalParser_parse(text, allowed) ==
  LET symbol == _extract_symbol(text)
      direction == _extract_direction(text)
      entry == _extract_entry_range(text)
      stop_loss == _extract_stop_loss(text)
      take_profits == _extract_take_profits(text)
  IN  IF symbol = "NONE" \/ symbol \notin allowed THEN NotASignal
      ELSE IF direction = "NONE" THEN NotASignal
      ELSE IF entry[1] = NULL THEN NotASignal
      ELSE IF stop_loss = NULL THEN NotASignal
      ELSE IF take_profits = <<>> THEN NotASignal
      ELSE _adjust_prices([ok |-> TRUE, direction |-> direction,
                           entry_min |-> entry[1], entry_max |-> entry[2],
                           stop_loss |-> stop_loss, take_profits |-> take_profits,
                           symbol |-> "XAUUSD"])

parse(text) == SignalParser_parse(text, allowed_symbols)

generate_hash_unsorted(p) ==
  <<p.symbol, p.direction, p.entry_min, p.entry_max, p.stop_loss, p.take_profits>>

generate_hash(p) ==
  <<p.symbol, p.direction, p.entry_min, p.entry_max, p.stop_loss, sorted(p.take_profits)>>

(* ----------------------------- validator ------------------------------ *)
(* Prices are binary64 floats in the code. The difference of two prices   *)
(* of two decimals is exact unless they lie on the two sides of a power   *)
(* of two; Binary64Above holds the sampled pairs (in cents) whose         *)
(* difference then comes out above the decimal one: 2048.07 - 2033.07 is  *)
(* 15.000000000000227 and 4110.97 - 4095.97 is 15.000000000000455.        *)
Binary64Above == {<<204807, 203307>>, <<411097, 409597>>}

(* sl_distance > max_sl, with sl_distance == a - b computed in binary64.  *)
sl_distance_exceeds(a, b, max_sl) ==
  \/ a - b > max_sl
  \/ a - b = max_sl /\ <<a, b>> \in Binary64Above

entry_max_greater_than_min(v, entry_min) == IF v < entry_min THEN entry_min ELSE v

FieldsPositive(s) ==
  /\ s.entry_min > 0 /\ s.entry_max > 0 /\ s.stop_loss > 0 /\ s.take_profit_1 > 0
  /\ (s.take_profit_2 # NULL => s.take_profit_2 > 0)
  /\ (s.take_profit_3 # NULL => s.take_profit_3 > 0)

Truthy(x) == x # NULL /\ x # 0

validate_trading_levels_no_distance(s, max_sl) ==
  IF s.direction = "BUY"
  THEN IF s.stop_loss >= s.entry_min THEN "BUY: SL must be below Entry"
       ELSE IF s.take_profit_1 <= s.entry_max THEN "BUY: TP1 must be above Entry"
       ELSE IF Truthy(s.take_profit_2) /\ s.take_profit_2 <= s.take_profit_1
            THEN "BUY: TP2 must be above TP1"
       ELSE IF Truthy(s.take_profit_3) /\ Truthy(s.take_profit_2)
               /\ s.take_profit_3 <= s.take_profit_2
            THEN "BUY: TP3 must be above TP2"
       ELSE "ok"
  ELSE IF s.stop_loss <= s.entry_max THEN "SELL: SL must be above Entry"
       ELSE IF s.take_profit_1 >= s.entry_min THEN "SELL: TP1 must be below Entry"
       ELSE IF Truthy(s.take_profit_2) /\ s.take_profit_2 >= s.take_profit_1
            THEN "SELL: TP2 must be below TP1"
       ELSE IF Truthy(s.take_profit_3) /\ Truthy(s.take_profit_2)
               /\ s.take_profit_3 >= s.take_profit_2
            THEN "SELL: TP3 must be below TP2"
       ELSE "ok"

validate_trading_levels_no_sl_side(s, max_sl) ==
  IF s.direction = "BUY"
  THEN IF sl_distance_exceeds(s.entry_min, s.stop_loss, max_sl) THEN "BUY: SL distance exceeds maximum"
       ELSE IF s.take_profit_1 <= s.entry_max THEN "BUY: TP1 must be above Entry"
       ELSE IF Truthy(s.take_profit_2) /\ s.take_profit_2 <= s.take_profit_1
            THEN "BUY: TP2 must be above TP1"
       ELSE IF Truthy(s.take_profit_3) /\ Truthy(s.take_profit_2)
               /\ s.take_profit_3 <= s.take_profit_2
            THEN "BUY: TP3 must be above TP2"
       ELSE "ok"
  ELSE IF sl_distance_exceeds(s.stop_loss, s.entry_max, max_sl) THEN "SELL: SL distance exceeds maximum"
       ELSE IF s.take_profit_1 >= s.entry_min THEN "SELL: TP1 must be below Entry"
       ELSE IF Truthy(s.take_profit_2) /\ s.take_profit_2 >= s.take_profit_1
            THEN "SELL: TP2 must be below TP1"
       ELSE IF Truthy(s.take_profit_3) /\ Truthy(s.take_profit_2)
               /\ s.take_profit_3 >= s.take_profit_2
            THEN "SELL: TP3 must be below TP2"
       ELSE "ok"

validate_trading_levels(s, max_sl) ==
  IF s.direction = "BUY"
  THEN IF s.stop_loss >= s.entry_min THEN "BUY: SL must be below Entry"
       ELSE IF sl_distance_exceeds(s.entry_min, s.stop_loss, max_sl) THEN "BUY: SL distance exceeds maximum"
       ELSE IF s.take_profit_1 <= s.entry_max THEN "BUY: TP1 must be above Entry"
       ELSE IF Truthy(s.take_profit_2) /\ s.take_profit_2 <= s.take_profit_1
            THEN "BUY: TP2 must be above TP1"
       ELSE IF Truthy(s.take_profit_3) /\ Truthy(s.take_profit_2)
               /\ s.take_profit_3 <= s.take_profit_2
            THEN "BUY: TP3 must be above TP2"
       ELSE "ok"
  ELSE IF s.stop_loss <= s.entry_max THEN "SELL: SL must be above Entry"
       ELSE IF sl_distance_exceeds(s.stop_loss, s.entry_max, max_sl) THEN "SELL: SL distance exceeds maximum"
       ELSE IF s.take_profit_1 >= s.entry_min THEN "SELL: TP1 must be below Entry"
       ELSE IF Truthy(s.take_profit_2) /\ s.take_profit_2 >= s.take_profit_1
            THEN "SELL: TP2 must be below TP1"
       ELSE IF Truthy(s.take_profit_3) /\ Truthy(s.take_profit_2)
               /\ s.take_profit_3 >= s.take_profit_2
            THEN "SELL: TP3 must be below TP2"
       ELSE "ok"

TradingSignalSchema_unchecked(fields, max_sl) ==
  [ok |-> TRUE,
   data |-> [fields EXCEPT !.entry_max = entry_max_greater_than_min(@, fields.entry_min)]]

TradingSignalSchema(fields, max_sl) ==
  IF ~FieldsPositive(fields) THEN [ok |-> FALSE, reason |-> "greater_than"]
  ELSE LET s == [fields EXCEPT !.entry_max = entry_max_greater_than_min(@, fields.entry_min)]
           verdict == validate_trading_levels(s, max_sl)
       IN  IF verdict = "ok" THEN [ok |-> TRUE, data |-> s]
           ELSE [ok |-> FALSE, reason |-> verdict]

_create_signal_schema_tp_index(message_id, text_id, chat_id, parsed, content_hash, status, max_sl) ==
  TradingSignalSchema(
    [telegram_message_id |-> message_id,
     telegram_channel_id |-> chat_id,
     symbol |-> parsed.symbol,
     direction |-> parsed.direction,
     entry_min |-> parsed.entry_min,
     entry_max |-> parsed.entry_max,
     stop_loss |-> parsed.stop_loss,
     take_profit_1 |-> parsed.take_profits[1],
     take_profit_2 |-> IF Len(parsed.take_profits) > 1 THEN parsed.take_profits[1] ELSE NULL,
     take_profit_3 |-> IF Len(parsed.take_profits) > 2 THEN parsed.take_profits[3] ELSE NULL,
     raw_message |-> text_id,
     content_hash |-> content_hash,
     status |-> status,
     parse_error |-> NULL], max_sl)

_create_signal_schema(message_id, text_id, chat_id, parsed, content_hash, status, max_sl) ==
  TradingSignalSchema(
    [telegram_message_id |-> message_id,
     telegram_channel_id |-> chat_id,
     symbol |-> parsed.symbol,
     direction |-> parsed.direction,
     entry_min |-> parsed.entry_min,
     entry_max |-> parsed.entry_max,
     stop_loss |-> parsed.stop_loss,
     take_profit_1 |-> parsed.take_profits[1],
     take_profit_2 |-> IF Len(parsed.take_profits) > 1 THEN parsed.take_profits[2] ELSE NULL,
     take_profit_3 |-> IF Len(parsed.take_profits) > 2 THEN parsed.take_profits[3] ELSE NULL,
     raw_message |-> text_id,
     content_hash |-> content_hash,
     status |-> status,
     parse_error |-> NULL], max_sl)

(* ------------------------------- store -------------------------------- *)
(* store is the signals table: store[i] is the row with id = i.           *)
uix_channel_message_off(st, chat_id, message_id) == TRUE

uix_channel_message(st, chat_id, message_id) ==
  \A i \in 1..Len(st) :
     ~(st[i].telegram_channel_id = chat_id /\ st[i].telegram_message_id = message_id)

Row(signal_data, id, t) ==
  [f \in DOMAIN signal_data \cup {"id", "created_at", "updated_at", "processed_at"} |->
     IF f = "id" THEN id
     ELSE IF f \in {"created_at", "updated_at"} THEN t
     ELSE IF f = "processed_at" THEN NULL
     ELSE signal_data[f]]

save_signal_no_rollback(st, signal_data, t) ==
  IF uix_channel_message(st, signal_data.telegram_channel_id, signal_data.telegram_message_id)
  THEN [ok |-> TRUE, id |-> Len(st) + 1,
        store |-> Append(st, Row(signal_data, Len(st) + 1, t))]
  ELSE [ok |-> FALSE, id |-> 0,
        store |-> Append(st, Row(signal_data, Len(st) + 1, t))]

(* The INSERT either commits or, when the uniqueness constraint refuses   *)
(* it, is rolled back and the error is raised again.                      *)
save_signal(st, signal_data, t) ==
  IF uix_channel_message(st, signal_data.telegram_channel_id, signal_data.telegram_message_id)
  THEN [ok |-> TRUE, id |-> Len(st) + 1,
        store |-> Append(st, Row(signal_data, Len(st) + 1, t))]
  ELSE [ok |-> FALSE, id |-> 0, store |-> st]

MULTIPLE == 0 - 2
get_signal_by_remote_id_never(st, channel_id, message_id) == 0

get_signal_by_remote_id_msg_only(st, channel_id, message_id) ==
  LET hits == {i \in 1..Len(st) : st[i].telegram_message_id = message_id}
  IN  IF hits = {} THEN 0
      ELSE IF Cardinality(hits) = 1 THEN CHOOSE i \in hits : TRUE
      ELSE MULTIPLE

get_signal_by_remote_id(st, channel_id, message_id) ==
  LET hits == {i \in 1..Len(st) : st[i].telegram_channel_id = channel_id
                                   /\ st[i].telegram_message_id = message_id}
  IN  IF hits = {} THEN 0
      ELSE IF Cardinality(hits) = 1 THEN CHOOSE i \in hits : TRUE
      ELSE MULTIPLE

get_latest_signal_by_hash_asc(st, content_hash) ==
  LET hits == {i \in 1..Len(st) : st[i].content_hash = content_hash}
  IN  IF hits = {} THEN 0
      ELSE CHOOSE i \in hits : \A j \in hits : st[j].created_at >= st[i].created_at

get_latest_signal_by_hash(st, content_hash) ==
  LET hits == {i \in 1..Len(st) : st[i].content_hash = content_hash}
  IN  IF hits = {} THEN 0
      ELSE CHOOSE i \in hits : \A j \in hits : st[j].created_at <= st[i].created_at

UpdatedRows(st, signal_id, update_data, t) ==
  [i \in 1..Len(st) |->
     IF st[i].id = signal_id
     THEN [f \in DOMAIN st[i] |->
             IF f = "updated_at" THEN t
             ELSE IF f \in DOMAIN update_data THEN update_data[f]
             ELSE st[i][f]]
     ELSE st[i]]

(* The uniqueness constraint as the table enforces it on an UPDATE.       *)
UniqueAfterUpdate(st, rows) ==
  \A i \in 1..Len(rows) :
     rows[i] # st[i] =>
       uix_channel_message([j \in 1..(Len(rows) - 1) |-> IF j < i THEN rows[j] ELSE rows[j + 1]],
                           rows[i].telegram_channel_id, rows[i].telegram_message_id)

update_signal_keeps_status(st, signal_id, update_data, t) ==
  LET data == [f \in DOMAIN update_data \ {"status"} |-> update_data[f]]
      rows == UpdatedRows(st, signal_id, data, t)
  IN  IF UniqueAfterUpdate(st, rows) THEN [ok |-> TRUE, store |-> rows]
      ELSE [ok |-> FALSE, store |-> st]

update_signal_keeps_hash(st, signal_id, update_data, t) ==
  LET data == [f \in DOMAIN update_data \ {"content_hash"} |-> update_data[f]]
      rows == UpdatedRows(st, signal_id, data, t)
  IN  IF UniqueAfterUpdate(st, rows) THEN [ok |-> TRUE, store |-> rows]
      ELSE [ok |-> FALSE, store |-> st]

update_signal(st, signal_id, update_data, t) ==
  LET rows == UpdatedRows(st, signal_id, update_data, t)
  IN  IF UniqueAfterUpdate(st, rows) THEN [ok |-> TRUE, store |-> rows]
      ELSE [ok |-> FALSE, store |-> st]

(* ---------------------------- expiry sweep ---------------------------- *)
(* One UPDATE ... WHERE statement: the WHERE clause is evaluated on the   *)
(* rows as they are when the statement runs.                              *)
SweptRows(st, hit, status, t) ==
  [i \in 1..Len(st) |->
     IF i \in hit THEN [st[i] EXCEPT !.status = status, !.updated_at = t] ELSE st[i]]

expire_old_signals_by_updated_at(st, max_age_seconds, t) ==
  LET cutoff_time == t - max_age_seconds
      hit == {i \in 1..Len(st) : /\ st[i].status \in {"PROCESS", "MODIFY"}
                                  /\ st[i].updated_at < cutoff_time}
  IN  [store |-> SweptRows(st, hit, "EXPIRED", t), expired_count |-> Cardinality(hit)]

expire_old_signals_touches_all(st, max_age_seconds, t) ==
  LET cutoff_time == t - max_age_seconds
      hit == {i \in 1..Len(st) : /\ st[i].status \in {"PROCESS", "MODIFY"}
                                  /\ st[i].created_at < cutoff_time}
      rows == [i \in 1..Len(st) |->
                 IF st[i].status \in {"PROCESS", "MODIFY"}
                 THEN [st[i] EXCEPT !.updated_at = t] ELSE st[i]]
  IN  [store |-> SweptRows(rows, hit, "EXPIRED", t), expired_count |-> Cardinality(hit)]

expire_old_signals_marks_done(st, max_age_seconds, t) ==
  LET cutoff_time == t - max_age_seconds
      hit == {i \in 1..Len(st) : /\ st[i].status \in {"PROCESS", "MODIFY"}
                                  /\ st[i].created_at < cutoff_time}
  IN  [store |-> SweptRows(st, hit, "DONE", t), expired_count |-> Cardinality(hit)]

RECURSIVE WithoutRows(_, _)
WithoutRows(st, hit) ==
  IF st = <<>> THEN <<>>
  ELSE LET rest == WithoutRows(SubSeq(st, 1, Len(st) - 1), hit)
       IN  IF Len(st) \in hit THEN rest ELSE Append(rest, st[Len(st)])

expire_old_signals_deletes(st, max_age_seconds, t) ==
  LET cutoff_time == t - max_age_seconds
      hit == {i \in 1..Len(st) : /\ st[i].status \in {"PROCESS", "MODIFY"}
                                  /\ st[i].created_at < cutoff_time}
  IN  [store |-> WithoutRows(st, hit), expired_count |-> Cardinality(hit)]

expire_old_signals_any_status(st, max_age_seconds, t) ==
  LET cutoff_time == t - max_age_seconds
      hit == {i \in 1..Len(st) : st[i].created_at < cutoff_time}
  IN  [store |-> SweptRows(st, hit, "EXPIRED", t), expired_count |-> Cardinality(hit)]

expire_old_signals_process_only(st, max_age_seconds, t) ==
  LET cutoff_time == t - max_age_seconds
      hit == {i \in 1..Len(st) :
                st[i].status = "PROCESS" /\ st[i].created_at < cutoff_time}
  IN  [store |-> SweptRows(st, hit, "EXPIRED", t), expired_count |-> Cardinality(hit)]

expire_old_signals(st, max_age_seconds, t) ==
  LET cutoff_time == t - max_age_seconds
      hit == {i \in 1..Len(st) : /\ st[i].status \in {"PROCESS", "MODIFY"}
                                  /\ st[i].created_at < cutoff_time}
  IN  [store |-> SweptRows(st, hit, "EXPIRED", t), expired_count |-> Cardinality(hit)]

(* The statement or the commit raised: the session is rolled back and    *)
(* expire_old_signals returns 0.                                          *)
expire_old_signals_rollback(st) == [store |-> st, expired_count |-> 0]

(* ------------------------ lifecycle classifier ------------------------ *)
within_duplicate_window(created_at, t) == t - created_at < DuplicateWindow

content_unchanged_inverted(stored_hash, content_hash) == stored_hash # content_hash

content_unchanged(stored_hash, content_hash) == stored_hash = content_hash

_handle_invalid_signal_persists(st, message_id, text_id, chat_id, parsed, t) ==
  Append(st, Row([telegram_message_id |-> message_id, telegram_channel_id |-> chat_id,
                  symbol |-> parsed.symbol, direction |-> parsed.direction,
                  entry_min |-> parsed.entry_min, entry_max |-> parsed.entry_max,
                  stop_loss |-> parsed.stop_loss,
                  take_profit_1 |-> parsed.take_profits[1],
                  take_profit_2 |-> NULL, take_profit_3 |-> NULL,
                  raw_message |-> text_id, content_hash |-> generate_hash(parsed),
                  status |-> "INVALID", parse_error |-> NULL], Len(st) + 1, t))

_handle_invalid_signal(st, message_id, text_id, chat_id, parsed, t) == st

_process_signal(st, message_id, text_id, chat_id, is_edit, t, max_sl) ==
  LET parsed == parse(Texts[text_id])
  IN
  IF ~parsed.ok THEN [store |-> st, outcome |-> "NotASignal"]
  ELSE
  LET content_hash == generate_hash(parsed)
      latest == get_latest_signal_by_hash(st, content_hash)
  IN
  IF ~is_edit /\ latest # 0 /\ within_duplicate_window(st[latest].created_at, t)
  THEN [store |-> st, outcome |-> "Duplicate"]
  ELSE
  LET existing_signal == get_signal_by_remote_id(st, chat_id, message_id)
      rejected == [store |-> _handle_invalid_signal(st, message_id, text_id, chat_id, parsed, t),
                   outcome |-> "Rejected"]
  IN
  IF existing_signal = MULTIPLE THEN [store |-> st, outcome |-> "Error"]
  ELSE IF is_edit /\ existing_signal # 0
  THEN IF content_unchanged(st[existing_signal].content_hash, content_hash)
       THEN [store |-> st, outcome |-> "UnchangedEdit"]
       ELSE LET schema == _create_signal_schema(message_id, text_id, chat_id, parsed,
                                                content_hash, "MODIFY", max_sl)
            IN  IF ~schema.ok THEN rejected
                ELSE LET updated == update_signal(st, st[existing_signal].id,
                                         [schema.data EXCEPT !.status = "MODIFY"], t)
                     IN  IF updated.ok
                         THEN [store |-> updated.store, outcome |-> "Revised"]
                         ELSE [store |-> st, outcome |-> "Error"]
  ELSE IF existing_signal # 0
       THEN [store |-> st, outcome |-> "AlreadyExists"]
       ELSE LET schema == _create_signal_schema(message_id, text_id, chat_id, parsed,
                                                content_hash, "PROCESS", max_sl)
            IN  IF ~schema.ok THEN rejected
                ELSE LET saved == save_signal(st, schema.data, t)
                     IN  IF saved.ok
                         THEN [store |-> saved.store, outcome |-> "Accepted"]
                         ELSE [store |-> st, outcome |-> "Error"]

_is_potential_signal(text) ==
  /\ \E s \in filter_symbols : text.sym = s
  /\ text.dir \in {"BUY", "SELL", "LONG", "SHORT"}

(* --------------------------- background tasks ------------------------- *)
(* A task that run_parser was not yet created for, and the web            *)
(* application after startup_event: the sweeper's task is running and no  *)
(* parser task exists.                                                    *)
NoTask == [pc |-> "none", cancel |-> FALSE]

StartedUp ==
  /\ expiry_checker_task = "running"
  /\ parser_state = [is_running |-> FALSE, task |-> NULL]
  /\ tasks = [i \in 1..MaxTasks |-> NoTask]

(* ------------------------------ actions ------------------------------- *)
(* No write is pending in the second process.                             *)
NoWrite == [kind |-> "none"]

(* last is the handler that ran last and the outcome it logged.           *)
Event(op, outcome) == [op |-> op, outcome |-> outcome]

_process_event_safely(chat_id, message_id, text_id, is_edit) ==
  LET op == IF is_edit THEN "edit" ELSE "new"
  IN
  /\ UNCHANGED <<now, max_sl_distance, inflight, web>>
  /\ IF Texts[text_id].blank
     THEN /\ store' = store
          /\ last' = Event(op, "Empty")
     ELSE IF ~_is_potential_signal(Texts[text_id])
     THEN /\ store' = store
          /\ last' = Event(op, "NotPotential")
     ELSE LET r == _process_signal(store, message_id, text_id, chat_id, is_edit,
                                   now, max_sl_distance)
          IN  /\ store' = r.store
              /\ last' = Event(op, r.outcome)

_on_new_message(chat_id, message_id, text_id) ==
  _process_event_safely(chat_id, message_id, text_id, FALSE)

_on_message_edited(chat_id, message_id, text_id) ==
  _process_event_safely(chat_id, message_id, text_id, TRUE)

apply_settings(v) ==
  /\ max_sl_distance' = v
  /\ last' = Event("settings", "")
  /\ UNCHANGED <<store, now, inflight, web>>

test_signal(message_id, entry_min) ==
  LET test_data == [telegram_message_id |-> message_id,
                    telegram_channel_id |-> TestChannel,
                    symbol |-> "XAUUSD", direction |-> "BUY",
                    entry_min |-> entry_min, entry_max |-> entry_min + 200,
                    stop_loss |-> entry_min - 1000,
                    take_profit_1 |-> entry_min + 500,
                    take_profit_2 |-> entry_min + 1500,
                    take_profit_3 |-> NULL,
                    raw_message |-> 0,
                    content_hash |-> <<"test", now>>,
                    status |-> "PROCESS", parse_error |-> NULL]
      saved == save_signal(store, test_data, now)
  IN  /\ store' = saved.store
      /\ last' = Event("test", IF saved.ok THEN "Saved" ELSE "Error")
      /\ UNCHANGED <<now, max_sl_distance, inflight, web>>

ConsumerDone(i) ==
  /\ i \in 1..Len(store)
  /\ store[i].status \in {"PROCESS", "MODIFY"}
  /\ store' = [store EXCEPT ![i].status = "DONE"]
  /\ last' = Event("consumer", "")
  /\ UNCHANGED <<now, max_sl_distance, inflight, web>>

Tick(d) ==
  /\ now + d <= MaxTime
  /\ now' = now + d
  /\ last' = Event("tick", "")
  /\ UNCHANGED <<store, max_sl_distance, inflight, web>>

(* One round of the background loop that sweeps every second.             *)
signal_expiry_checker ==
  LET swept == expire_old_signals(store, ExpiryWindow, now)
  IN  /\ store' = swept.store
      /\ last' = Event("sweep", ToString(swept.expired_count))
      /\ UNCHANGED <<now, max_sl_distance, inflight, web>>

Elapse(d) ==
  /\ now + d <= MaxSweepTime
  /\ now' = now + d
  /\ last' = Event("tick", "")
  /\ UNCHANGED <<store, max_sl_distance, inflight, web>>

(* One round of the sweeper's loop with a store that may fail. Without   *)
(* the two exception handlers a store error would end the task.           *)
signal_expiry_checker_round_uncaught(db_fails) ==
  /\ expiry_checker_task = "running"
  /\ LET swept == IF db_fails THEN expire_old_signals_rollback(store)
                  ELSE expire_old_signals(store, ExpiryWindow, now)
     IN  /\ store' = swept.store
         /\ last' = Event(IF db_fails THEN "sweep_error" ELSE "sweep",
                          ToString(swept.expired_count))
  /\ expiry_checker_task' = IF db_fails THEN "failed" ELSE "running"
  /\ UNCHANGED <<now, max_sl_distance, inflight, parser_state, tasks>>

signal_expiry_checker_round(db_fails) ==
  /\ expiry_checker_task = "running"
  /\ LET swept == IF db_fails THEN expire_old_signals_rollback(store)
                  ELSE expire_old_signals(store, ExpiryWindow, now)
     IN  /\ store' = swept.store
         /\ last' = Event(IF db_fails THEN "sweep_error" ELSE "sweep",
                          ToString(swept.expired_count))
  /\ UNCHANGED <<now, max_sl_distance, inflight, web>>

(* The web application serves requests and events until it shuts down.    *)
Serving == expiry_checker_task # "cancelled"

(* The parser tasks that were created and have not finished.              *)
Alive == {i \in 1..MaxTasks : tasks[i].pc \notin {"none", "finished"}}

(* POST /parser/start: no await between the test of is_running and        *)
(* create_task, and the created task does not run before the handler     *)
(* returns.                                                               *)
start_parser(is_fully_configured) ==
  /\ Serving
  /\ IF ~is_fully_configured
     THEN /\ last' = Event("start", "Stopped")
          /\ UNCHANGED <<parser_state, tasks>>
     ELSE IF ~parser_state.is_running
     THEN /\ \E i \in 1..MaxTasks : tasks[i].pc = "none"
          /\ LET task == Least({i \in 1..MaxTasks : tasks[i].pc = "none"})
             IN  /\ tasks' = [tasks EXCEPT ![task].pc = "created"]
                 /\ parser_state' = [parser_state EXCEPT !.task = task]
          /\ last' = Event("start", "RUNNING")
     ELSE /\ last' = Event("start", "")
          /\ UNCHANGED <<parser_state, tasks>>
  /\ UNCHANGED <<store, now, max_sl_distance, inflight, expiry_checker_task>>

(* Task.cancel(): a request that the task receives at its next step.      *)
cancel(ts, task) ==
  IF task \in 1..MaxTasks /\ ts[task].pc \notin {"none", "finished"}
  THEN [ts EXCEPT ![task].cancel = TRUE]
  ELSE ts

(* POST /parser/stop.                                                     *)
stop_parser ==
  /\ Serving
  /\ IF parser_state.is_running /\ parser_state.task # NULL
     THEN /\ tasks' = cancel(tasks, parser_state.task)
          /\ last' = Event("stop", "STOPPED")
     ELSE /\ tasks' = tasks
          /\ last' = Event("stop", "")
  /\ UNCHANGED <<store, now, max_sl_distance, inflight, expiry_checker_task, parser_state>>

(* The end of run_parser's finally block.                                 *)
finally_resets(ps) == [ps EXCEPT !.is_running = FALSE, !.task = NULL]

(* The first step of a created task: a task cancelled before it starts    *)
(* never enters run_parser; otherwise is_running is set and the task      *)
(* waits in client.start(), unless constructing the client raises.        *)
run_parser_begins(task, client_fails) ==
  /\ tasks[task].pc = "created"
  /\ IF tasks[task].cancel
     THEN /\ tasks' = [tasks EXCEPT ![task] = [pc |-> "finished", cancel |-> FALSE]]
          /\ parser_state' = parser_state
     ELSE IF client_fails
     THEN /\ tasks' = [tasks EXCEPT ![task].pc = "finished"]
          /\ parser_state' = finally_resets(parser_state)
     ELSE /\ tasks' = [tasks EXCEPT ![task].pc = "started"]
          /\ parser_state' = [parser_state EXCEPT !.is_running = TRUE]
  /\ last' = Event("run_parser", "begin")
  /\ UNCHANGED <<store, now, max_sl_distance, inflight, expiry_checker_task>>

(* client.start() ends: cancelled, failed or disconnected. The finally    *)
(* block waits for the disconnect when the client is connected.           *)
run_parser_ends(task, is_connected) ==
  /\ tasks[task].pc = "started"
  /\ IF is_connected
     THEN /\ tasks' = [tasks EXCEPT ![task] = [pc |-> "disconnecting", cancel |-> FALSE]]
          /\ parser_state' = parser_state
     ELSE /\ tasks' = [tasks EXCEPT ![task] = [pc |-> "finished", cancel |-> FALSE]]
          /\ parser_state' = finally_resets(parser_state)
  /\ last' = Event("run_parser", "end")
  /\ UNCHANGED <<store, now, max_sl_distance, inflight, expiry_checker_task>>

(* The disconnect returns and the finally block completes, unless a       *)
(* cancellation arrived while it waited: then the block is left at the    *)
(* await and its last two assignments do not run.                         *)
run_parser_cleanup(task) ==
  /\ tasks[task].pc = "disconnecting"
  /\ tasks' = [tasks EXCEPT ![task] = [pc |-> "finished", cancel |-> FALSE]]
  /\ parser_state' = IF tasks[task].cancel THEN parser_state
                     ELSE finally_resets(parser_state)
  /\ last' = Event("run_parser", "cleanup")
  /\ UNCHANGED <<store, now, max_sl_distance, inflight, expiry_checker_task>>

(* Shutdown cancels the sweeper's task and the parser task on record.     *)
shutdown_event ==
  /\ Serving
  /\ expiry_checker_task' = "cancelled"
  /\ tasks' = IF parser_state.is_running /\ parser_state.task # NULL
              THEN cancel(tasks, parser_state.task) ELSE tasks
  /\ last' = Event("shutdown", "")
  /\ UNCHANGED <<store, now, max_sl_distance, inflight, parser_state>>

(* A second parser process on the same database file. Its handler is not  *)
(* atomic with respect to the first process: it runs the lookups of       *)
(* _process_signal on the store as it is and decides on a write ...       *)
_process_signal_reads(chat_id, message_id, text_id, is_edit) ==
  /\ inflight = NoWrite
  /\ ~Texts[text_id].blank
  /\ _is_potential_signal(Texts[text_id])
  /\ LET r == _process_signal(store, message_id, text_id, chat_id, is_edit,
                              now, max_sl_distance)
         existing_signal == get_signal_by_remote_id(store, chat_id, message_id)
     IN  /\ r.outcome \in {"Accepted", "Revised"}
         /\ inflight' = [kind |-> IF r.outcome = "Accepted" THEN "save" ELSE "update",
                         signal_id |-> IF r.outcome = "Accepted" THEN 0
                                       ELSE store[existing_signal].id,
                         chat_id |-> chat_id, message_id |-> message_id,
                         text_id |-> text_id, is_edit |-> is_edit]
  /\ last' = Event(IF is_edit THEN "edit" ELSE "new", "Pending")
  /\ UNCHANGED <<store, now, max_sl_distance, web>>

(* ... and later sends it to the store as it is then. The commit fails    *)
(* with an IntegrityError when the uniqueness constraint refuses the row  *)
(* and with an OperationalError when the database does (db_fails: file    *)
(* locked, disk full); save_signal and update_signal roll back and raise  *)
(* again, _process_event_safely logs the exception and returns.           *)
_process_signal_writes(db_fails) ==
  /\ inflight.kind \in {"save", "update"}
  /\ LET parsed == parse(Texts[inflight.text_id])
         status == IF inflight.kind = "save" THEN "PROCESS" ELSE "MODIFY"
         schema == _create_signal_schema(inflight.message_id, inflight.text_id,
                                         inflight.chat_id, parsed, generate_hash(parsed),
                                         status, max_sl_distance)
         written == IF inflight.kind = "save"
                    THEN save_signal(store, schema.data, now)
                    ELSE update_signal(store, inflight.signal_id,
                                       [schema.data EXCEPT !.status = "MODIFY"], now)
         op == IF inflight.is_edit THEN "edit" ELSE "new"
     IN  IF db_fails
         THEN /\ store' = store
              /\ last' = Event(op, "OperationalError")
         ELSE /\ store' = written.store
              /\ last' = Event(op, IF ~written.ok THEN "IntegrityError"
                                   ELSE IF inflight.kind = "save" THEN "Accepted"
                                   ELSE "Revised")
  /\ inflight' = NoWrite
  /\ UNCHANGED web
  /\ UNCHANGED <<now, max_sl_distance>>

(* The validator run on the candidate extracted from one sampled text.    *)
ValidatorTexts ==
  {[blank |-> FALSE, sym |-> "XAUUSD", dir |-> d, entry |-> en, sl |-> <<sl>>, tps |-> tp] :
     d \in {"BUY", "SELL"}, en \in EntrySamples, sl \in SlSamples,
     tp \in {t \in UNION {[1..n -> TpSamples] : n \in 1..3} :
               \A i, j \in 1..Len(t) : i # j => t[i] # t[j]}}

validate_candidate ==
  /\ last.op = "candidate"
  /\ LET parsed == parse(last.text)
         schema == _create_signal_schema(1, 0, 1, parsed, generate_hash(parsed),
                                         "PROCESS", max_sl_distance)
     IN  /\ parsed.ok
         /\ last' = [op |-> "validate",
                     outcome |-> IF schema.ok THEN "ok" ELSE schema.reason,
                     candidate |-> parsed]
  /\ UNCHANGED <<store, now, max_sl_distance, inflight, web>>

Init ==
  /\ store = <<>>
  /\ now = 0
  /\ max_sl_distance = DefaultMaxSl
  /\ last = Event("init", "")
  /\ inflight = NoWrite
  /\ StartedUp

Messages ==
  \/ \E c \in monitored_channels, m \in MsgIds, x \in TextIds : _on_new_message(c, m, x)
  \/ \E c \in monitored_channels, m \in MsgIds, x \in TextIds : _on_message_edited(c, m, x)

Next ==
  \/ Messages
  \/ \E v \in MaxSlValues : apply_settings(v)
  \/ \E i \in 1..Cardinality(monitored_channels \X MsgIds) : ConsumerDone(i)
  \/ \E d \in TickSteps : Tick(d)

Spec == Init /\ [][Next]_vars

(* The store with the dashboard's test endpoint writing to it as well.    *)
NextStore ==
  \/ Messages
  \/ \E m \in TestMsgIds : test_signal(m, 235000)
  \/ \E d \in TickSteps : Tick(d)

SpecStore == Init /\ [][NextStore]_vars

(* The store with the expiry sweeper and the downstream consumer at work, *)
(* over a clock that passes the validity window.                          *)
SweepMessages ==
  \/ \E c \in monitored_channels, m \in MsgIds, x \in SweepTextIds : _on_new_message(c, m, x)
  \/ \E c \in monitored_channels, m \in MsgIds, x \in SweepTextIds : _on_message_edited(c, m, x)

NextSweep ==
  \/ SweepMessages
  \/ signal_expiry_checker
  \/ \E i \in 1..Cardinality(monitored_channels \X MsgIds) : ConsumerDone(i)
  \/ \E d \in SweepSteps : Elapse(d)

SpecSweep == Init /\ [][NextSweep]_vars

(* The validator alone: one sampled text and one setting are drawn, the   *)
(* text is extracted and normalized and the candidate is validated.       *)
InitValidator ==
  /\ store = <<>>
  /\ now = 0
  /\ inflight = NoWrite
  /\ StartedUp
  /\ max_sl_distance \in MaxSlValues
  /\ last \in {[op |-> "candidate", outcome |-> "", text |-> text] : text \in ValidatorTexts}

NextValidator == validate_candidate

SpecValidator == InitValidator /\ [][NextValidator]_vars

(* The hasher alone: two sampled texts are drawn, both are extracted and  *)
(* normalized and their fingerprints computed.                            *)
HashTexts ==
  {[blank |-> FALSE, sym |-> sy, dir |-> d, entry |-> en, sl |-> <<sl>>, tps |-> tp] :
     sy \in HashSymbols, d \in {"BUY", "SELL"}, en \in HashEntries, sl \in HashStops,
     tp \in {t \in UNION {[1..n -> HashTps] : n \in 1..3} :
               \A i, j \in 1..Len(t) : i # j => t[i] # t[j]}}

hash_candidates ==
  /\ last.op = "texts"
  /\ LET p1 == parse(last.text1)
         p2 == parse(last.text2)
     IN  /\ p1.ok /\ p2.ok
         /\ last' = [op |-> "hash", outcome |-> "", candidate1 |-> p1, candidate2 |-> p2,
                     hash1 |-> generate_hash(p1), hash2 |-> generate_hash(p2)]
  /\ UNCHANGED <<store, now, max_sl_distance, inflight, web>>

InitHasher ==
  /\ store = <<>>
  /\ now = 0
  /\ inflight = NoWrite
  /\ StartedUp
  /\ max_sl_distance = DefaultMaxSl
  /\ last \in {[op |-> "texts", outcome |-> "", text1 |-> t1, text2 |-> t2] :
                t1 \in HashTexts, t2 \in HashTexts}

NextHasher == hash_candidates

SpecHasher == InitHasher /\ [][NextHasher]_vars

(* The extractor alone: a sampled text of lines and a setting of the      *)
(* allowed symbols are drawn and the text is parsed.                      *)
HeaderLines ==
  {<<Word("XAUUSD"), Word("BUY"), Word("ENTRY"), Num(200000), Word("SL:"), Num(199000)>>,
   <<Word("GOLD"), Word("SELL"), Word("@"), Num(200000)>>,
   <<Word("XAU/USD"), Word("LONG"), Word("ENTRY"), Num(200200), Word("-"), Num(200000),
     Word("SL:"), Num(199000)>>,
   <<Word("BUY"), Word("ENTRY"), Num(200000), Word("SL:"), Num(199000)>>,
   <<Word("XAUUSD"), Word("ENTRY"), Num(200000), Word("SL:"), Num(199000)>>,
   <<Word("XAUUSD"), Word("BUY"), Word("SL:"), Num(199000)>>,
   <<Word("EURUSD"), Word("BUY"), Word("ENTRY"), Num(200000), Word("SL:"), Num(199000)>>}

BodyLines ==
  {<<>>,
   <<Word("TP"), Num(201000)>>,
   <<Word("TP"), Num(100), Word(":"), Num(202000)>>,
   <<Num(203000)>>,
   <<Word("WORD")>>,
   <<Word("SL:"), Num(199500)>>,
   <<Word("SL"), Num(199500)>>,
   <<Word("ENTRY"), Num(200100)>>,
   <<Word("@"), Num(200100)>>}

ExtractorTexts ==
  {<<h>> \o b : h \in HeaderLines,
                b \in UNION {[1..n -> BodyLines] : n \in 0..MaxBodyLines}}

extract_text ==
  /\ last.op = "text"
  /\ LET parsed == SignalParser_parse(search(last.text), last.allowed)
     IN  last' = [op |-> "parse", outcome |-> IF parsed.ok THEN "Candidate" ELSE "NotASignal",
                  text |-> last.text, allowed |-> last.allowed, candidate |-> parsed]
  /\ UNCHANGED <<store, now, max_sl_distance, inflight, web>>

InitExtractor ==
  /\ store = <<>>
  /\ now = 0
  /\ inflight = NoWrite
  /\ StartedUp
  /\ max_sl_distance = DefaultMaxSl
  /\ last \in {[op |-> "text", outcome |-> "", text |-> t, allowed |-> a] :
                t \in ExtractorTexts, a \in AllowedSamples}

NextExtractor == extract_text

SpecExtractor == InitExtractor /\ [][NextExtractor]_vars

(* The extractor alone on texts of one line: the fields of a header with  *)
(* a take-profit part written after them or before them.                  *)
TpTails ==
  {<<>>,
   <<Num(203000)>>,
   <<Word("TP"), Num(201000)>>,
   <<Word("TP"), Num(201000), Num(202000)>>,
   <<Word("TP"), Num(100), Word(":"), Num(201000), Word("TP"), Num(200), Word(":"), Num(202000)>>,
   <<Word("TP"), Num(200000)>>,
   <<Word("TP"), Num(199000), Num(201000)>>,
   <<Word("TP"), Num(201000), Word("SL:"), Num(199500)>>,
   <<Word("TP"), Num(201000), Word("ENTRY"), Num(200100)>>}

OneLineTexts ==
  {<<h \o t>> : h \in HeaderLines, t \in TpTails}
    \cup {<<t \o h>> : h \in HeaderLines, t \in TpTails}

InitOneLine ==
  /\ store = <<>>
  /\ now = 0
  /\ inflight = NoWrite
  /\ StartedUp
  /\ max_sl_distance = DefaultMaxSl
  /\ last \in {[op |-> "text", outcome |-> "", text |-> t, allowed |-> a] :
                t \in OneLineTexts, a \in AllowedSamples}

NextOneLine == extract_text

SpecOneLine == InitOneLine /\ [][NextOneLine]_vars

(* The handlers fed with a valid text, a text whose candidate fails       *)
(* validation and a text that fails extraction, under both settings.      *)
FailureTextIds == {1, 4, 5}

FailureMessages ==
  \/ \E c \in monitored_channels, m \in MsgIds, x \in FailureTextIds : _on_new_message(c, m, x)
  \/ \E c \in monitored_channels, m \in MsgIds, x \in FailureTextIds : _on_message_edited(c, m, x)

NextFailures ==
  \/ FailureMessages
  \/ \E v \in MaxSlValues : apply_settings(v)
  \/ \E d \in TickSteps : Tick(d)

SpecFailures == Init /\ [][NextFailures]_vars

(* The sweeper as a fair process beside the handlers. The clock is read   *)
(* at the sampled instants and stops at MaxSweepTime, so a record is      *)
(* created only while its validity window can still close on that clock;  *)
(* an edit of a stored record may arrive at any instant. The loop of      *)
(* signal_expiry_checker sleeps one second between rounds and catches     *)
(* every exception of a round, so a round that would change the store     *)
(* is eventually run; the clock eventually passes every sampled instant.  *)
SweepInstants == {1800, 3599, ExpiryWindow, MaxSweepTime}

Advance(t) ==
  /\ now < t
  /\ now' = t
  /\ last' = Event("tick", "")
  /\ UNCHANGED <<store, max_sl_distance, inflight, web>>

WindowCanClose(t) == t + ExpiryWindow < MaxSweepTime

ExpiryMessages ==
  \/ \E c \in monitored_channels, m \in MsgIds, x \in SweepTextIds :
        WindowCanClose(now) /\ _on_new_message(c, m, x)
  \/ \E c \in monitored_channels, m \in MsgIds, x \in SweepTextIds :
        /\ WindowCanClose(now) \/ get_signal_by_remote_id(store, c, m) # 0
        /\ _on_message_edited(c, m, x)

Clock == \E t \in SweepInstants : Advance(t)

NextExpiry ==
  \/ ExpiryMessages
  \/ signal_expiry_checker
  \/ \E i \in 1..Cardinality(monitored_channels \X MsgIds) : ConsumerDone(i)
  \/ Clock

SpecExpiry ==
  Init /\ [][NextExpiry]_vars /\ WF_vars(signal_expiry_checker) /\ WF_vars(Clock)

(* The handlers fed with messages of one and of four take-profits.       *)
RevisionMessages ==
  \/ \E c \in monitored_channels, m \in MsgIds, x \in RevisionTextIds : _on_new_message(c, m, x)
  \/ \E c \in monitored_channels, m \in MsgIds, x \in RevisionTextIds : _on_message_edited(c, m, x)

NextRevision ==
  \/ RevisionMessages
  \/ \E i \in 1..Cardinality(monitored_channels \X MsgIds) : ConsumerDone(i)
  \/ \E d \in TickSteps : Tick(d)

SpecRevision == Init /\ [][NextRevision]_vars

(* The sweeper's task on a store that may fail, beside the handlers, the  *)
(* consumer and the clock, until shutdown.                                *)
NextSweeper ==
  \/ Serving /\ SweepMessages
  \/ \E db_fails \in BOOLEAN : signal_expiry_checker_round(db_fails)
  \/ \E i \in 1..Cardinality(monitored_channels \X MsgIds) : ConsumerDone(i)
  \/ \E d \in SweepSteps : Elapse(d)
  \/ shutdown_event

SpecSweeper == Init /\ [][NextSweeper]_vars

(* The parser's start and stop requests interleaved with the steps of the *)
(* tasks they create.                                                     *)
NextParserTask ==
  \/ \E is_fully_configured \in BOOLEAN : start_parser(is_fully_configured)
  \/ stop_parser
  \/ \E task \in 1..MaxTasks, client_fails \in BOOLEAN : run_parser_begins(task, client_fails)
  \/ \E task \in 1..MaxTasks, is_connected \in BOOLEAN : run_parser_ends(task, is_connected)
  \/ \E task \in 1..MaxTasks : run_parser_cleanup(task)
  \/ shutdown_event

SpecParserTask == Init /\ [][NextParserTask]_vars

(* Two parser processes on one database file: the handlers of the first  *)
(* are atomic steps, the handler of the second is split at its write.     *)
WriteTextIds == {1, 3}

WriteMessages ==
  \/ \E c \in monitored_channels, m \in MsgIds, x \in WriteTextIds : _on_new_message(c, m, x)
  \/ \E c \in monitored_channels, m \in MsgIds, x \in WriteTextIds : _on_message_edited(c, m, x)

NextWrite ==
  \/ WriteMessages
  \/ \E c \in monitored_channels, m \in MsgIds, x \in WriteTextIds, e \in BOOLEAN :
        _process_signal_reads(c, m, x, e)
  \/ \E db_fails \in BOOLEAN : _process_signal_writes(db_fails)
  \/ \E d \in TickSteps : Tick(d)

SpecWrite == Init /\ [][NextWrite]_vars

TypeOK ==
  /\ now \in 0..MaxTime
  /\ max_sl_distance \in MaxSlValues

(* ------------------------- claim vocabulary --------------------------- *)
HasRecord(st, c, m) ==
  \E i \in 1..Len(st) : st[i].telegram_channel_id = c /\ st[i].telegram_message_id = m

IsRecordOf(r, c, m) == r.telegram_channel_id = c /\ r.telegram_message_id = m

(* The message gets past the handler's early returns to the classifier.   *)
Classified(x) == ~Texts[x].blank /\ _is_potential_signal(Texts[x])

Candidates == [x \in TextIds |-> parse(Texts[x])]
Candidate(x) == Candidates[x]
Extracting == {x \in TextIds : Classified(x) /\ Candidate(x).ok}
Extracts(x) == x \in Extracting
Fingerprints == [x \in Extracting |-> generate_hash(Candidate(x))]
Fingerprint(x) == Fingerprints[x]
TpOf(p, k) == IF Len(p.take_profits) >= k THEN p.take_profits[k] ELSE NULL

(* The validator's rules as section 4.4 of the specification states them. *)
RulesHold(direction, entry_min, entry_max, stop_loss, tp1, tp2, tp3, max_sl) ==
  /\ entry_min > 0 /\ entry_max > 0 /\ stop_loss > 0 /\ tp1 > 0
  /\ entry_min <= entry_max
  /\ tp2 # NULL => tp2 > 0
  /\ tp3 # NULL => tp3 > 0
  /\ direction = "BUY" =>
       /\ stop_loss < entry_min
       /\ entry_min - stop_loss <= max_sl
       /\ tp1 > entry_max
       /\ tp2 # NULL => tp2 > tp1
       /\ tp3 # NULL => tp3 > tp2
  /\ direction = "SELL" =>
       /\ stop_loss > entry_max
       /\ stop_loss - entry_max <= max_sl
       /\ tp1 < entry_min
       /\ tp2 # NULL => tp2 < tp1
       /\ tp3 # NULL => tp3 < tp2

ValidCandidates ==
  [v \in MaxSlValues |->
     {x \in Extracting :
        LET p == Candidate(x)
        IN  RulesHold(p.direction, p.entry_min, p.entry_max, p.stop_loss,
                      TpOf(p, 1), TpOf(p, 2), TpOf(p, 3), v)}]
CandidateValid(x, max_sl) == x \in ValidCandidates[max_sl]

RecordValid(r, max_sl) ==
  RulesHold(r.direction, r.entry_min, r.entry_max, r.stop_loss,
            r.take_profit_1, r.take_profit_2, r.take_profit_3, max_sl)

(* The record carries the normalized candidate of text x for (c, m).      *)
CarriesCandidate(r, c, m, x) ==
  LET p == Candidate(x)
  IN  /\ IsRecordOf(r, c, m)
      /\ r.symbol = p.symbol /\ r.direction = p.direction
      /\ r.entry_min = p.entry_min /\ r.entry_max = p.entry_max
      /\ r.stop_loss = p.stop_loss
      /\ r.take_profit_1 = TpOf(p, 1) /\ r.take_profit_2 = TpOf(p, 2)
      /\ r.take_profit_3 = TpOf(p, 3)
      /\ r.content_hash = Fingerprint(x)
      /\ r.raw_message = x

(* The most recently created record with the fingerprint of x is younger  *)
(* than the duplicate window.                                             *)
DuplicateBurst(st, x, t) ==
  \E i \in 1..Len(st) :
     /\ st[i].content_hash = Fingerprint(x)
     /\ \A j \in 1..Len(st) :
          st[j].content_hash = Fingerprint(x) => st[j].created_at <= st[i].created_at
     /\ t - st[i].created_at < 5

CreatesOneRecord(st, st2, c, m, x, t) ==
  /\ Len(st2) = Len(st) + 1
  /\ \A i \in 1..Len(st) : st2[i] = st[i]
  /\ CarriesCandidate(st2[Len(st2)], c, m, x)
  /\ st2[Len(st2)].status = "PROCESS"
  /\ st2[Len(st2)].created_at = t
  /\ st2[Len(st2)].updated_at = t

AtMostOneWrite(st, st2) ==
  \/ /\ Len(st2) = Len(st)
     /\ Cardinality({i \in 1..Len(st) : st2[i] # st[i]}) <= 1
  \/ /\ Len(st2) = Len(st) + 1
     /\ \A i \in 1..Len(st) : st2[i] = st[i]

Sources == monitored_channels \X MsgIds

(* ------------------------------ claims -------------------------------- *)

(* C1: after any sequence of new-message and edit events (redeliveries    *)
(* and edits included) the store holds at most one record for each        *)
(* (channel id, message id) pair.                                         *)
C1_OneRecordPerMessage ==
  \A i, j \in 1..Len(store) :
     (/\ store[i].telegram_channel_id = store[j].telegram_channel_id
      /\ store[i].telegram_message_id = store[j].telegram_message_id) => i = j

(* A redelivery has just been turned away while both monitored messages   *)
(* have records, one of them revised by an edit.                          *)
C1_Witness ==
  /\ last = Event("new", "AlreadyExists")
  /\ \E i, j \in 1..Len(store) :
        /\ i # j
        /\ store[i].telegram_channel_id \in monitored_channels
        /\ store[j].telegram_channel_id \in monitored_channels
        /\ store[i].status = "MODIFY"

(* C2: a new message that extracts to a candidate, is not a duplicate     *)
(* burst, has no record for its (channel, message) pair and passes        *)
(* validation creates exactly one record, with status PROCESS and the     *)
(* prices and fingerprint of the normalized candidate.                    *)
C2_NewMessageCreatesProcessRecord ==
  [][\A s \in Sources, x \in TextIds :
       (/\ Extracts(x)
        /\ ~DuplicateBurst(store, x, now)
        /\ ~HasRecord(store, s[1], s[2])
        /\ CandidateValid(x, max_sl_distance)
        /\ last'.op = "new"
        /\ _on_new_message(s[1], s[2], x))
       => /\ CreatesOneRecord(store, store', s[1], s[2], x, now)
          /\ last' = Event("new", "Accepted")]_vars

(* A second record was created by a new message after the first one left  *)
(* the duplicate window.                                                  *)
C2_Witness ==
  /\ last = Event("new", "Accepted")
  /\ Len(store) = 2
  /\ store[2].status = "PROCESS"
  /\ store[2].created_at = now

(* C3: every record the classifier creates or revises satisfies, when it  *)
(* is written, all validator rules for its direction under the            *)
(* max_sl_distance then in force, with entry_min <= entry_max and all     *)
(* prices positive; a candidate the validator rejects is never written.   *)
C3_WrittenRecordsAreValid ==
  [][/\ last'.op \in {"new", "edit"} =>
          \A i \in 1..Len(store') :
             (i > Len(store) \/ store'[i] # store[i])
                => RecordValid(store'[i], max_sl_distance)
     /\ \A s \in Sources, x \in TextIds, e \in BOOLEAN :
          (/\ Extracts(x)
           /\ ~CandidateValid(x, max_sl_distance)
           /\ store' # store
           /\ last'.op = (IF e THEN "edit" ELSE "new")
           /\ _process_event_safely(s[1], s[2], x, e))
          => FALSE]_vars

(* A record was revised while the tightened stop distance was in force.   *)
C3_Witness ==
  /\ last = Event("edit", "Revised")
  /\ max_sl_distance < DefaultMaxSl
  /\ \E i \in 1..Len(store) : store[i].status = "MODIFY" /\ store[i].updated_at = now

(* C4: a new message whose fingerprint is that of the most recently       *)
(* created record with that fingerprint, created less than 5 seconds ago, *)
(* is ignored as a duplicate burst and writes nothing, whatever channel   *)
(* or message id it has; the text of a just accepted message sent again   *)
(* as another new message leaves the store as it is.                      *)
C4_DuplicateBurstIgnored ==
  [][\A s \in Sources, x \in TextIds :
       /\ (/\ Extracts(x)
           /\ DuplicateBurst(store, x, now)
           /\ last'.op = "new"
        /\ _on_new_message(s[1], s[2], x))
          => (store' = store /\ last' = Event("new", "Duplicate"))
       /\ (/\ last = Event("new", "Accepted")
           /\ x = store[Len(store)].raw_message
           /\ ~IsRecordOf(store[Len(store)], s[1], s[2])
           /\ last'.op = "new"
        /\ _on_new_message(s[1], s[2], x))
          => (store' = store /\ last' = Event("new", "Duplicate"))]_vars

(* A new message was ignored as a duplicate of the only record, which was *)
(* 4 seconds old.                                                         *)
C4_Witness ==
  /\ last = Event("new", "Duplicate")
  /\ Len(store) = 1
  /\ now - store[1].created_at = 4

(* C5: an edit of a message that has a record, whose extracted            *)
(* fingerprint equals the stored one, is ignored: nothing is written and  *)
(* the record keeps its fields, status and timestamps.                    *)
C5_UnchangedEditIgnored ==
  [][\A s \in Sources, x \in TextIds :
       (/\ Extracts(x)
        /\ \E i \in 1..Len(store) :
              IsRecordOf(store[i], s[1], s[2]) /\ store[i].content_hash = Fingerprint(x)
        /\ last'.op = "edit"
        /\ _on_message_edited(s[1], s[2], x))
       => (store' = store /\ last' = Event("edit", "UnchangedEdit"))]_vars

(* An edit was ignored as unchanged some time after its record was        *)
(* written.                                                               *)
C5_Witness ==
  /\ last = Event("edit", "UnchangedEdit")
  /\ \E i \in 1..Len(store) : store[i].updated_at < now

(* C6: an edit of a message that has a record, whose extracted            *)
(* fingerprint differs from the stored one and which passes validation,   *)
(* updates that record in place: no record is added, its prices and       *)
(* fingerprint become the edit's and its status becomes MODIFY.           *)
C6_ChangedEditRevisesInPlace ==
  [][\A s \in Sources, x \in TextIds :
       (/\ Extracts(x)
        /\ \E i \in 1..Len(store) :
              IsRecordOf(store[i], s[1], s[2]) /\ store[i].content_hash # Fingerprint(x)
        /\ CandidateValid(x, max_sl_distance)
        /\ last'.op = "edit"
        /\ _on_message_edited(s[1], s[2], x))
       => /\ Len(store') = Len(store)
          /\ \A i \in 1..Len(store) :
                IF IsRecordOf(store[i], s[1], s[2])
                THEN /\ CarriesCandidate(store'[i], s[1], s[2], x)
                     /\ store'[i].status = "MODIFY"
                     /\ store'[i].id = store[i].id
                     /\ store'[i].created_at = store[i].created_at
                     /\ store'[i].updated_at = now
                ELSE store'[i] = store[i]
          /\ last' = Event("edit", "Revised")]_vars

(* A record was revised some time after it was created, while another    *)
(* record sat next to it.                                                 *)
C6_Witness ==
  /\ last = Event("edit", "Revised")
  /\ Len(store) = 2
  /\ \E i \in 1..2 : store[i].status = "MODIFY" /\ store[i].created_at < store[i].updated_at

(* C7: when an edit with a changed fingerprint fails validation the       *)
(* outcome is Rejected and the existing record keeps its prices,          *)
(* fingerprint, status and updated_at.                                    *)
C7_RejectedEditLeavesRecord ==
  [][\A s \in Sources, x \in TextIds :
       (/\ Extracts(x)
        /\ \E i \in 1..Len(store) :
              IsRecordOf(store[i], s[1], s[2]) /\ store[i].content_hash # Fingerprint(x)
        /\ ~CandidateValid(x, max_sl_distance)
        /\ last'.op = "edit"
        /\ _on_message_edited(s[1], s[2], x))
       => (store' = store /\ last' = Event("edit", "Rejected"))]_vars

(* An edit was rejected when every monitored message already had a        *)
(* record.                                                                *)
C7_Witness ==
  /\ last = Event("edit", "Rejected")
  /\ \A s \in Sources : HasRecord(store, s[1], s[2])

(* C8 as stated: an edit event for a (channel, message) pair that has no  *)
(* record is ignored and leaves the store unchanged, even when the edited *)
(* text is a valid signal.                                                *)
C8_EditWithoutRecordIgnored ==
  [][\A s \in Sources, x \in TextIds :
       (~HasRecord(store, s[1], s[2]) /\ last'.op = "edit"
        /\ _on_message_edited(s[1], s[2], x))
       => store' = store]_vars

(* C8 amended: an edit event for a pair that has no record is handled     *)
(* like a first delivery without the duplicate-burst check: a text that   *)
(* extracts to a candidate passing validation creates one PROCESS record  *)
(* for the pair, any other text leaves the store unchanged.               *)
C8_EditWithoutRecordCreates ==
  [][\A s \in Sources, x \in TextIds :
       (~HasRecord(store, s[1], s[2]) /\ last'.op = "edit"
        /\ _on_message_edited(s[1], s[2], x))
       => IF Extracts(x) /\ CandidateValid(x, max_sl_distance)
          THEN /\ CreatesOneRecord(store, store', s[1], s[2], x, now)
               /\ last' = Event("edit", "Accepted")
          ELSE store' = store]_vars

(* An edit created the second record while a record with the same         *)
(* fingerprint was inside the duplicate window.                           *)
C8_Witness ==
  /\ last = Event("edit", "Accepted")
  /\ Len(store) = 2
  /\ store[1].content_hash = store[2].content_hash
  /\ store[2].created_at - store[1].created_at < DuplicateWindow

(* C9: a new message for a (channel, message) pair that already has a     *)
(* record is ignored, so a redelivery at any later moment leaves the      *)
(* store as it was: a step that writes to the store, or ends in any       *)
(* outcome other than an ignoring one, is never the delivery of a new     *)
(* message for a pair that has a record.                                  *)
C9_RedeliveryIgnored ==
  [][\A s \in Sources :
       (/\ HasRecord(store, s[1], s[2])
        /\ last'.op = "new"
        /\ ~(/\ store' = store
             /\ last'.outcome \in {"Empty", "NotPotential", "NotASignal",
                                   "Duplicate", "AlreadyExists"}))
       => \A x \in TextIds : ~_on_new_message(s[1], s[2], x)]_vars

(* A redelivery was ignored as already processed after the duplicate      *)
(* window of its record had passed.                                       *)
C9_Witness ==
  /\ last = Event("new", "AlreadyExists")
  /\ \E i \in 1..Len(store) : now - store[i].created_at >= DuplicateWindow

(* C10: a classifier invocation performs at most one store write (one     *)
(* create or one update), and none when its outcome is not-a-signal,      *)
(* Ignored (duplicate, unchanged edit, already exists) or Rejected.       *)
C10_AtMostOneWrite ==
  [][last'.op \in {"new", "edit"} =>
       /\ AtMostOneWrite(store, store')
       /\ last'.outcome \in {"NotASignal", "Duplicate", "UnchangedEdit",
                             "AlreadyExists", "Rejected"} => store' = store]_vars

(* A new message was rejected by the validator while the store held a     *)
(* record.                                                                *)
C10_Witness ==
  /\ last = Event("new", "Rejected")
  /\ Len(store) >= 1

(* --------------------------- expiry claims ---------------------------- *)
(* The sweep's condition as section 4.6 of the specification states it.   *)
Expirable(r, t) ==
  /\ r.status \in {"PROCESS", "MODIFY"}
  /\ r.created_at < t - ExpiryWindow

(* C11: a sweep sets status EXPIRED on exactly the records whose status   *)
(* is PROCESS or MODIFY and whose creation time is strictly earlier than  *)
(* now - maxAge, and returns how many it changed; age is counted from     *)
(* creation, so a record 3601 s old expires, one 3599 s old does not,     *)
(* and a revision by edit does not extend the window.                     *)
C11_SweepExpiresOldOpenRecords ==
  [][last'.op = "sweep" =>
       /\ Len(store') = Len(store)
       /\ \A i \in 1..Len(store) :
            /\ Expirable(store[i], now) => store'[i].status = "EXPIRED"
            /\ ~Expirable(store[i], now) => store'[i].status = store[i].status
            /\ (store[i].status \in {"PROCESS", "MODIFY"} /\ now - store[i].created_at >= 3601)
                  => store'[i].status = "EXPIRED"
            /\ (store[i].status \in {"PROCESS", "MODIFY"} /\ now - store[i].created_at <= 3599)
                  => store'[i].status = store[i].status
       /\ last'.outcome = ToString(Cardinality({i \in 1..Len(store) : Expirable(store[i], now)}))]_vars

(* A sweep expired the record created 3601 s ago and kept the open record *)
(* created 1801 s ago.                                                    *)
C11_Witness ==
  /\ last = Event("sweep", "1")
  /\ \E i, j \in 1..Len(store) :
        /\ store[i].status = "EXPIRED" /\ now - store[i].created_at = 3601
        /\ store[i].updated_at = now
        /\ store[j].status \in {"PROCESS", "MODIFY"} /\ now - store[j].created_at = 1801

(* C12: a sweep leaves every record that is DONE, INVALID, ERROR or       *)
(* already EXPIRED, and every PROCESS or MODIFY record younger than the   *)
(* window, entirely unchanged, and changes nothing but status and         *)
(* updated_at of the records it expires.                                  *)
C12_SweepLeavesOthersUnchanged ==
  [][last'.op = "sweep" =>
       /\ Len(store') = Len(store)
       /\ \A i \in 1..Len(store) :
            IF Expirable(store[i], now)
            THEN store'[i] = [store[i] EXCEPT !.status = store'[i].status,
                                              !.updated_at = store'[i].updated_at]
            ELSE store'[i] = store[i]]_vars

(* A sweep expired one record and passed over a DONE record that is older *)
(* than the window.                                                       *)
C12_Witness ==
  /\ last = Event("sweep", "1")
  /\ \E i \in 1..Len(store) :
        store[i].status = "DONE" /\ store[i].created_at < now - ExpiryWindow

(* C13: no operation of the core (classifier create, classifier revise,   *)
(* sweep) writes status DONE: a record that is DONE after such a step was *)
(* DONE before it.                                                        *)
C13_CoreNeverWritesDone ==
  [][last'.op \in {"new", "edit", "sweep"} =>
       \A i \in 1..Len(store') :
          store'[i].status = "DONE" => (i <= Len(store) /\ store[i].status = "DONE")]_vars

(* An edit revised one record while the other record stayed DONE.         *)
C13_Witness ==
  /\ last = Event("edit", "Revised")
  /\ \E i, j \in 1..Len(store) :
        /\ store[i].status = "DONE"
        /\ store[j].status = "MODIFY" /\ store[j].updated_at = now

(* C14: the core never deletes a record: across message events and sweeps *)
(* every record stays in its place with its id and its (channel, message) *)
(* pair, so the set of pairs that have a record only grows; expiry        *)
(* changes a status and removes nothing.                                  *)
C14_CoreNeverDeletes ==
  [][last'.op \in {"new", "edit", "sweep"} =>
       /\ Len(store') >= Len(store)
       /\ \A i \in 1..Len(store) :
            /\ store'[i].id = store[i].id
            /\ IsRecordOf(store'[i], store[i].telegram_channel_id,
                          store[i].telegram_message_id)
       /\ \A s \in Sources : HasRecord(store, s[1], s[2]) => HasRecord(store', s[1], s[2])]_vars

(* A sweep expired both records and both are still in the store.          *)
C14_Witness ==
  /\ last = Event("sweep", "2")
  /\ Len(store) = 2
  /\ \A i \in 1..2 : store[i].status = "EXPIRED"

(* C15: the sweeper cannot overwrite a DONE mark: in every interleaving   *)
(* of sweeps with the consumer marking records DONE, no step takes a      *)
(* record from DONE to EXPIRED, and a sweep leaves a DONE record as it    *)
(* is.                                                                    *)
C15_SweepNeverOverwritesDone ==
  [][/\ \A i \in 1..Len(store) :
          (store[i].status = "DONE" /\ i <= Len(store')) => store'[i].status # "EXPIRED"
     /\ last'.op = "sweep" =>
          \A i \in 1..Len(store) : store[i].status = "DONE" => store'[i] = store[i]]_vars

(* Both records had outlived the window unswept when the consumer marked  *)
(* them DONE, and the sweep that followed changed nothing.                *)
C15_Witness ==
  /\ last = Event("sweep", "0")
  /\ Len(store) = 2
  /\ \A i \in 1..2 : store[i].status = "DONE" /\ now - store[i].created_at > ExpiryWindow

(* The exceptions a failed write ends in.                                 *)
WriteErrors == {"IntegrityError", "OperationalError"}

(* C16: when two deliveries of the same new (channel, message) both pass  *)
(* the existence check and the second create hits the uniqueness          *)
(* constraint, the classifier's outcome is the already-exists ignore and  *)
(* the store keeps exactly the first record.                              *)
C16_ConstraintViolationIsAlreadyExists ==
  [][(/\ inflight.kind = "save"
      /\ ~inflight.is_edit
      /\ HasRecord(store, inflight.chat_id, inflight.message_id)
      /\ _process_signal_writes(FALSE))
     => /\ last' = Event("new", "AlreadyExists")
        /\ store' = store]_vars

(* The second create of a pair was refused by the constraint and ended in *)
(* the logged exception; the store holds the first record only.           *)
C16_Witness ==
  /\ last = Event("new", "IntegrityError")
  /\ inflight = NoWrite
  /\ Len(store) = 1
  /\ store[1].status = "PROCESS"

(* C17: a create or update that fails leaves the store's records as they  *)
(* were, nothing stays pending for a retry, and the next new message that *)
(* extracts to a valid candidate for a free pair outside a duplicate      *)
(* burst still creates its record.                                        *)
C17_FailedWriteLeavesStore ==
  [][/\ (inflight = NoWrite /\ inflight' # NoWrite) => store' = store
     /\ (inflight # NoWrite /\ inflight' # inflight /\ last'.outcome \in WriteErrors)
          => (store' = store /\ inflight' = NoWrite)
     /\ \A s \in Sources, x \in TextIds :
          (/\ last.outcome \in WriteErrors
           /\ Extracts(x)
           /\ ~DuplicateBurst(store, x, now)
           /\ ~HasRecord(store, s[1], s[2])
           /\ CandidateValid(x, max_sl_distance)
           /\ last'.op = "new"
           /\ _on_new_message(s[1], s[2], x))
          => /\ CreatesOneRecord(store, store', s[1], s[2], x, now)
             /\ last' = Event("new", "Accepted")]_vars

(* A revision failed on the database while the store held a record, which *)
(* is still in its first state.                                           *)
C17_Witness ==
  /\ last = Event("edit", "OperationalError")
  /\ inflight = NoWrite
  /\ Len(store) = 1
  /\ store[1].status = "PROCESS"
  /\ store[1].updated_at = store[1].created_at
  /\ now > store[1].created_at

(* -------------------------- validator claims -------------------------- *)
(* The five rules of section 4.4 of the specification, by direction, as   *)
(* violations numbered in the order the specification lists them.         *)
Violations(p, max_sl) ==
  IF p.direction = "BUY"
  THEN {k \in 1..5 :
          \/ k = 1 /\ ~(p.stop_loss < p.entry_min)
          \/ k = 2 /\ ~(p.entry_min - p.stop_loss <= max_sl)
          \/ k = 3 /\ ~(TpOf(p, 1) > p.entry_max)
          \/ k = 4 /\ TpOf(p, 2) # NULL /\ ~(TpOf(p, 2) > TpOf(p, 1))
          \/ k = 5 /\ TpOf(p, 3) # NULL /\ ~(TpOf(p, 3) > TpOf(p, 2))}
  ELSE {k \in 1..5 :
          \/ k = 1 /\ ~(p.stop_loss > p.entry_max)
          \/ k = 2 /\ ~(p.stop_loss - p.entry_max <= max_sl)
          \/ k = 3 /\ ~(TpOf(p, 1) < p.entry_min)
          \/ k = 4 /\ TpOf(p, 2) # NULL /\ ~(TpOf(p, 2) < TpOf(p, 1))
          \/ k = 5 /\ TpOf(p, 3) # NULL /\ ~(TpOf(p, 3) < TpOf(p, 2))}

FirstViolation(p, max_sl) ==
  CHOOSE k \in Violations(p, max_sl) : \A j \in Violations(p, max_sl) : k <= j

RuleReason(direction, k) ==
  IF direction = "BUY"
  THEN <<"BUY: SL must be below Entry", "BUY: SL distance exceeds maximum",
         "BUY: TP1 must be above Entry", "BUY: TP2 must be above TP1",
         "BUY: TP3 must be above TP2">>[k]
  ELSE <<"SELL: SL must be above Entry", "SELL: SL distance exceeds maximum",
         "SELL: TP1 must be below Entry", "SELL: TP2 must be below TP1",
         "SELL: TP3 must be below TP2">>[k]

PricesPositive(p) ==
  /\ p.entry_min > 0 /\ p.entry_max > 0 /\ p.stop_loss > 0
  /\ \A k \in 1..3 : TpOf(p, k) # NULL => TpOf(p, k) > 0

Validated(direction) == last.op = "validate" /\ last.candidate.direction = direction

(* C18: for a BUY candidate the validator accepts if and only if         *)
(* stop-loss < entry-min, entry-min - stop-loss <= maxStopDistance,       *)
(* TP1 > entry-max, TP2 > TP1 when TP2 is present and TP3 > TP2 when TP3  *)
(* is present.                                                            *)
C18_BuyAcceptedIffRules ==
  Validated("BUY") =>
    (last.outcome = "ok" <=> Violations(last.candidate, max_sl_distance) = {})

(* A BUY candidate with positive prices that keeps all five rules, its    *)
(* stop exactly maxStopDistance below the entry, was rejected for the     *)
(* stop distance.                                                         *)
C18_Witness ==
  /\ Validated("BUY")
  /\ PricesPositive(last.candidate)
  /\ Violations(last.candidate, max_sl_distance) = {}
  /\ last.candidate.entry_min - last.candidate.stop_loss = max_sl_distance
  /\ last.outcome = "BUY: SL distance exceeds maximum"

(* C19: for a SELL candidate the validator accepts if and only if         *)
(* stop-loss > entry-max, stop-loss - entry-max <= maxStopDistance,       *)
(* TP1 < entry-min, TP2 < TP1 when TP2 is present and TP3 < TP2 when TP3  *)
(* is present.                                                            *)
C19_SellAcceptedIffRules ==
  Validated("SELL") =>
    (last.outcome = "ok" <=> Violations(last.candidate, max_sl_distance) = {})

(* A SELL candidate that keeps all five rules, its stop exactly           *)
(* maxStopDistance above the entry, was rejected for the stop distance.   *)
C19_Witness ==
  /\ Validated("SELL")
  /\ Violations(last.candidate, max_sl_distance) = {}
  /\ last.candidate.stop_loss - last.candidate.entry_max = max_sl_distance
  /\ last.outcome = "SELL: SL distance exceeds maximum"

(* C20: when a candidate violates several validator rules the rejection   *)
(* reason is that of the first violated rule in the order stop-loss       *)
(* side, stop distance, TP1 against entry, TP2 against TP1, TP3 against   *)
(* TP2.                                                                   *)
C20_FirstViolatedRuleIsReason ==
  (last.op = "validate" /\ Cardinality(Violations(last.candidate, max_sl_distance)) >= 2)
    => last.outcome = RuleReason(last.candidate.direction,
                                 FirstViolation(last.candidate, max_sl_distance))

(* A candidate with positive prices whose first violated rule is TP1      *)
(* against entry, its stop exactly maxStopDistance from the entry, was    *)
(* rejected for the stop distance.                                        *)
C20_Witness ==
  /\ last.op = "validate"
  /\ PricesPositive(last.candidate)
  /\ Cardinality(Violations(last.candidate, max_sl_distance)) >= 2
  /\ FirstViolation(last.candidate, max_sl_distance) = 3
  /\ last.outcome = RuleReason(last.candidate.direction, 2)

(* ----------------------- extraction and hashing ----------------------- *)
(* The prices as the message writes them, in cents.                       *)
RawEntries(x) == {Texts[x].entry[k] : k \in 1..Min2(2, Len(Texts[x].entry))}
RawStopLoss(x) == Texts[x].sl[1]
RawTakeProfits(x) == Dedup(Texts[x].tps, <<>>)

ShiftedOnce(r, x) ==
  LET up == IF r.direction = "BUY" THEN 50 ELSE 0 - 50
      raw_tps == RawTakeProfits(x)
      stored == <<r.take_profit_1, r.take_profit_2, r.take_profit_3>>
  IN  /\ r.stop_loss = RawStopLoss(x) - up
      /\ \A k \in 1..3 : stored[k] = IF k <= Len(raw_tps) THEN raw_tps[k] + up ELSE NULL
      /\ r.entry_min \in RawEntries(x) /\ r.entry_max \in RawEntries(x)

(* C21: every record holds the prices of the text it was last written     *)
(* from, shifted exactly once by 0.50: for BUY the stop-loss is the       *)
(* written one minus 0.50 and every take-profit the written one plus      *)
(* 0.50, for SELL the signs invert, and the entry prices are those        *)
(* written; this holds after any number of accepted edits.                *)
C21_StoredPricesShiftedOnce ==
  \A i \in 1..Len(store) : ShiftedOnce(store[i], store[i].raw_message)

(* A record first written from a BUY message was revised by an edit to a  *)
(* SELL message and holds the SELL prices shifted once.                   *)
C21_Witness ==
  /\ last = Event("edit", "Revised")
  /\ Len(store) >= 1
  /\ store[1].status = "MODIFY"
  /\ store[1].direction = "SELL"
  /\ store[1].stop_loss = RawStopLoss(store[1].raw_message) + 50
  /\ store[1].take_profit_3 = RawTakeProfits(store[1].raw_message)[3] - 50

Count(seq, v) == Cardinality({i \in 1..Len(seq) : seq[i] = v})

(* Two candidates agree in symbol, direction, entry-min, entry-max,       *)
(* stop-loss and the multiset of their take-profits.                      *)
SameContent(p1, p2) ==
  /\ p1.symbol = p2.symbol /\ p1.direction = p2.direction
  /\ p1.entry_min = p2.entry_min /\ p1.entry_max = p2.entry_max
  /\ p1.stop_loss = p2.stop_loss
  /\ \A v \in {p1.take_profits[i] : i \in 1..Len(p1.take_profits)}
         \cup {p2.take_profits[i] : i \in 1..Len(p2.take_profits)} :
        Count(p1.take_profits, v) = Count(p2.take_profits, v)

(* C22: two candidates have the same fingerprint if and only if they are  *)
(* equal in symbol, direction, entry-min, entry-max, stop-loss and the    *)
(* multiset of take-profits, whatever the order of the take-profits and   *)
(* the wording of the text they were extracted from.                      *)
C22_FingerprintIsFunctionOfContent ==
  last.op = "hash" =>
    (last.hash1 = last.hash2 <=> SameContent(last.candidate1, last.candidate2))

(* Two candidates extracted from texts that name the instrument           *)
(* differently and list the same three take-profits in different orders   *)
(* have the same fingerprint.                                             *)
C22_Witness ==
  /\ last.op = "hash"
  /\ Len(last.candidate1.take_profits) = 3
  /\ last.candidate1.take_profits # last.candidate2.take_profits
  /\ SameContent(last.candidate1, last.candidate2)
  /\ last.hash1 = last.hash2

(* What a text of lines offers to each extraction step.                   *)
FollowedByNumber(toks, words) ==
  \E k \in 1..Len(toks) : IsWord(toks[k], words) /\ \E j \in (k + 1)..Len(toks) : IsNum(toks[j])

AllowedSymbolMissing(toks, allowed) ==
  ~\E k \in 1..Len(toks) :
      /\ toks[k].k = "word"
      /\ \/ toks[k].w \in allowed
         \/ toks[k].w \in SymbolWords /\ "XAUUSD" \in allowed
DirectionMissing(toks) == ~\E k \in 1..Len(toks) : IsWord(toks[k], DirectionWords)
EntryMissing(toks) == ~FollowedByNumber(toks, EntryWords)
StopLossMissing(toks) == ~FollowedByNumber(toks, StopLossWords)
TakeProfitMissing(toks) ==
  ~\E k \in 1..Len(toks) :
      IsWord(toks[k], TakeProfitWords) /\ \E j \in (k + 1)..Len(toks) : IsLevel(toks[j])

MissingFields(toks, allowed) ==
  {f \in {"symbol", "direction", "entry", "stop_loss", "take_profit"} :
     \/ f = "symbol" /\ AllowedSymbolMissing(toks, allowed)
     \/ f = "direction" /\ DirectionMissing(toks)
     \/ f = "entry" /\ EntryMissing(toks)
     \/ f = "stop_loss" /\ StopLossMissing(toks)
     \/ f = "take_profit" /\ TakeProfitMissing(toks)}

NumbersOf(toks) == {toks[j].n : j \in {i \in 1..Len(toks) : IsNum(toks[i])}}

(* Every field of the candidate comes from the text.                      *)
CompleteCandidate(p, toks) ==
  /\ p.symbol = "XAUUSD"
  /\ p.direction \in {"BUY", "SELL"}
  /\ p.entry_min \in NumbersOf(toks) /\ p.entry_max \in NumbersOf(toks)
  /\ \E n \in NumbersOf(toks) : p.stop_loss \in {n - 50, n + 50}
  /\ p.take_profits # <<>>
  /\ \A i \in 1..Len(p.take_profits) :
        \E n \in NumbersOf(toks) : p.take_profits[i] \in {n - 50, n + 50}

(* C23: extraction returns NotASignal whenever the allowed symbol, the    *)
(* direction, the entry, the stop-loss or every take-profit is missing    *)
(* from the text, whichever other fields are present, and whatever it     *)
(* returns otherwise is a candidate with all its fields.                  *)
C23_ExtractionAllOrNothing ==
  last.op = "parse" =>
    /\ MissingFields(Flatten(last.text), last.allowed) # {} => last.candidate = NotASignal
    /\ last.candidate # NotASignal => CompleteCandidate(last.candidate, Flatten(last.text))

(* A text with symbol, direction, entry and take-profits but no stop-loss *)
(* was parsed: NotASignal.                                                *)
C23_Witness ==
  /\ last.op = "parse"
  /\ MissingFields(Flatten(last.text), last.allowed) = {"stop_loss"}
  /\ last.outcome = "NotASignal"

InstrumentWords == SymbolWords \cup {"EURUSD"}
Canonical(w) == IF w \in SymbolWords THEN "XAUUSD" ELSE w
Listed(w, allowed) == w \in allowed \/ Canonical(w) \in allowed
Named(toks) == {toks[k].w : k \in {i \in 1..Len(toks) : IsWord(toks[i], InstrumentWords)}}

(* C24: a text that has the other mandatory fields and names an           *)
(* instrument listed in the allowed symbols (a gold alias or any other    *)
(* configured symbol) is extracted, a gold alias as XAUUSD, and a text    *)
(* that names only instruments outside the allowed symbols is not.        *)
C24_AllowedSymbolsAreExtracted ==
  last.op = "parse" =>
    LET toks == Flatten(last.text)
        others == MissingFields(toks, last.allowed) \ {"symbol"}
    IN  /\ (others = {} /\ \E w \in Named(toks) : Listed(w, last.allowed))
            => (last.candidate # NotASignal /\ last.candidate.symbol = "XAUUSD")
        /\ (\A w \in Named(toks) : ~Listed(w, last.allowed)) => last.candidate = NotASignal

(* With GOLD the only allowed symbol, a complete text naming GOLD was     *)
(* parsed: NotASignal.                                                    *)
C24_Witness ==
  /\ last.op = "parse"
  /\ last.allowed = {"GOLD"}
  /\ Named(Flatten(last.text)) = {"GOLD"}
  /\ MissingFields(Flatten(last.text), last.allowed) = {}
  /\ last.outcome = "NotASignal"

(* The scan as stated: a line with a take-profit keyword opens the block  *)
(* and gives its numbers, a following line without one closes the block   *)
(* when it is blank or holds an entry keyword or a stop-loss keyword, and *)
(* adds its numbers otherwise.                                            *)
RECURSIVE ClaimedBlock(_, _, _)
ClaimedBlock(lines, in_tp_block, acc) ==
  IF lines = <<>> THEN acc
  ELSE LET line == Head(lines)
           tp_match == Least({j \in 1..Len(line) : IsWord(line[j], TakeProfitWords)})
       IN  IF tp_match # 0
           THEN ClaimedBlock(Tail(lines), TRUE, acc \o Levels(line, tp_match + 1))
           ELSE IF ~in_tp_block THEN ClaimedBlock(Tail(lines), FALSE, acc)
           ELSE IF \E j \in 1..Len(line) : IsWord(line[j], EntryWords \cup StopLossWords)
                THEN ClaimedBlock(Tail(lines), FALSE, acc)
           ELSE IF Levels(line, 1) = <<>>
                THEN ClaimedBlock(Tail(lines), line # <<>>, acc)
           ELSE ClaimedBlock(Tail(lines), TRUE, acc \o Levels(line, 1))

Unshifted(p) ==
  [i \in 1..Len(p.take_profits) |->
     p.take_profits[i] - (IF p.direction = "BUY" THEN 50 ELSE 0 - 50)]

(* C25: the take-profits of an extracted candidate are the numbers of the *)
(* two-state line scan, in first-seen order without duplicates: a block   *)
(* opened by a take-profit keyword line, continued by the lines after it  *)
(* and closed by the first line that is blank or holds an entry keyword   *)
(* or any stop-loss keyword without a take-profit keyword; numbers on the *)
(* closing line and outside a block are no take-profits.                  *)
C25_TakeProfitBlockScan ==
  (last.op = "parse" /\ last.candidate # NotASignal)
    => Unshifted(last.candidate) = Dedup(ClaimedBlock(last.text, FALSE, <<>>), <<>>)

(* A text whose take-profit block is followed by the line "SL 1995" was   *)
(* extracted with 1995 among its take-profits.                            *)
C25_Witness ==
  /\ last.op = "parse"
  /\ last.candidate # NotASignal
  /\ \E i \in 2..Len(last.text) :
        /\ last.text[i] = <<Word("SL"), Num(199500)>>
        /\ last.text[i - 1] = <<Word("TP"), Num(201000)>>
  /\ \E k \in 1..Len(last.candidate.take_profits) : Unshifted(last.candidate)[k] = 199500

(* The entry of a candidate or record is the (min, max) of the numbers    *)
(* its text writes, equal for a single number.                            *)
EntryOrdered(p, x) ==
  /\ p.entry_min <= p.entry_max
  /\ \A n \in RawEntries(x) : p.entry_min <= n /\ n <= p.entry_max
  /\ p.entry_min \in RawEntries(x) /\ p.entry_max \in RawEntries(x)

(* C26: every candidate and every persisted record has                    *)
(* entry_min <= entry_max: a two-number entry range gives the smaller and *)
(* the larger of the two numbers in whatever order they are written, a    *)
(* single number gives entry_min = entry_max.                             *)
C26_EntryMinAtMostEntryMax ==
  /\ \A x \in Extracting : EntryOrdered(Candidate(x), x)
  /\ \A i \in 1..Len(store) :
       /\ store[i].entry_min <= store[i].entry_max
       /\ store[i].raw_message \in TextIds => EntryOrdered(store[i], store[i].raw_message)

(* A record was written from a text that gives its entry range with the   *)
(* larger number first, beside a record of the test endpoint.             *)
C26_Witness ==
  \E i, j \in 1..Len(store) :
     /\ store[i].raw_message \in TextIds
     /\ Len(Texts[store[i].raw_message].entry) = 2
     /\ Texts[store[i].raw_message].entry[1] > Texts[store[i].raw_message].entry[2]
     /\ store[i].entry_min = Texts[store[i].raw_message].entry[2]
     /\ store[i].entry_max = Texts[store[i].raw_message].entry[1]
     /\ store[j].telegram_channel_id = TestChannel

(* The classifier gets as far as validating the candidate of text x: the  *)
(* event is no duplicate burst, and its pair has no record or, for an     *)
(* edit, a record with another fingerprint.                               *)
ReachesValidation(st, c, m, x, is_edit, t) ==
  /\ Extracts(x)
  /\ is_edit \/ ~DuplicateBurst(st, x, t)
  /\ \A i \in 1..Len(st) :
        IsRecordOf(st[i], c, m) => (is_edit /\ st[i].content_hash # Fingerprint(x))

(* C27: a failure inside extraction, normalization, hashing or validation *)
(* never escapes the handler: no event ends in the error outcome, a text  *)
(* that fails extraction ends in NotASignal, a candidate that fails       *)
(* validation ends in Rejected, and in both cases the store, the clock    *)
(* and the setting are as before, so the next message is processed as if  *)
(* the bad one had not arrived.                                           *)
C27_FailuresEndInOutcomes ==
  [][/\ last'.op \in {"new", "edit"} => last'.outcome # "Error"
     /\ \A s \in Sources, x \in FailureTextIds, e \in BOOLEAN :
          (/\ Classified(x)
           /\ ~Extracts(x)
           /\ last'.op = (IF e THEN "edit" ELSE "new")
           /\ _process_event_safely(s[1], s[2], x, e))
          => /\ last'.outcome = "NotASignal"
             /\ UNCHANGED <<store, now, max_sl_distance>>
     /\ \A s \in Sources, x \in FailureTextIds, e \in BOOLEAN :
          (/\ Classified(x)
           /\ ReachesValidation(store, s[1], s[2], x, e, now)
           /\ ~CandidateValid(x, max_sl_distance)
           /\ last'.op = (IF e THEN "edit" ELSE "new")
           /\ _process_event_safely(s[1], s[2], x, e))
          => /\ last'.outcome = "Rejected"
             /\ UNCHANGED <<store, now, max_sl_distance>>]_vars

(* A new message whose candidate fails validation under the lowered       *)
(* setting was rejected while the store held a record.                    *)
C27_Witness ==
  /\ last = Event("new", "Rejected")
  /\ max_sl_distance = 1000
  /\ Len(store) = 1
  /\ store[1].status = "PROCESS"

(* ------------------------------ expiry -------------------------------- *)
Open(i) == i <= Len(store) /\ store[i].status \in {"PROCESS", "MODIFY"}

Closed(i) == i <= Len(store) /\ store[i].status \in {"EXPIRED", "DONE"}

(* C28: with the sweeper run fairly and the clock advancing, every record *)
(* that is PROCESS or MODIFY is EXPIRED or DONE at some later point, also *)
(* when an edit re-opens it as MODIFY in between.                         *)
C28_OpenRecordsAreClosed ==
  \A i \in 1..Cardinality(monitored_channels \X MsgIds) : Open(i) ~> Closed(i)

(* The sweeper expired a record that an edit had revised, while the other *)
(* record had been marked DONE by the consumer.                           *)
C28_Witness ==
  /\ last = Event("sweep", "1") /\ Len(store) = 2
  /\ store[1].status = "EXPIRED" /\ store[1].created_at < store[1].updated_at
  /\ store[1].content_hash = generate_hash(parse(Texts[3]))
  /\ store[2].status = "DONE"

(* ------------------- validation of adjusted prices -------------------- *)
WrittenDistance(text) ==
  IF text.dir = "BUY"
  THEN Least({text.entry[k] : k \in 1..Len(text.entry)}) - text.sl[1]
  ELSE text.sl[1] - (0 - Least({0 - text.entry[k] : k \in 1..Len(text.entry)}))

DistanceReasons == {"BUY: SL distance exceeds maximum", "SELL: SL distance exceeds maximum"}

(* C29: a message whose adjusted prices are positive passes the distance  *)
(* rule if and only if its written distance between entry and stop-loss   *)
(* plus 0.50 is at most maxStopDistance: entry-min minus stop-loss for a  *)
(* BUY message, stop-loss minus entry-max for a SELL message.             *)
C29_DistanceRuleOnAdjustedPrices ==
  [][(/\ last.op = "candidate" /\ last'.op = "validate"
      /\ PricesPositive(last'.candidate))
     => (last'.outcome \notin DistanceReasons
           <=> WrittenDistance(last.text) + adjustment <= max_sl_distance)]_vars

(* A BUY message written with its stop-loss 14.50 below the entry, which  *)
(* is 15.00 after the adjustment and so within the default maximum, was   *)
(* rejected for the stop distance.                                        *)
C29_Witness ==
  /\ Validated("BUY") /\ max_sl_distance = DefaultMaxSl
  /\ PricesPositive(last.candidate)
  /\ last.candidate.entry_min = last.candidate.entry_max
  /\ last.candidate.entry_min - (last.candidate.stop_loss + adjustment) + adjustment
       = max_sl_distance
  /\ last.outcome \in DistanceReasons

(* --------------------------- replayed edits --------------------------- *)
Replay(st, c, m, x, t, max_sl) == _process_signal(st, m, x, c, TRUE, t, max_sl)

(* C30: after an edit is accepted as Revised the record carries the       *)
(* fingerprint of the edited text, and the same edit delivered again, at  *)
(* any later time and under either setting, is ignored as unchanged and   *)
(* leaves the store, status and updated_at included, as it was.           *)
C30_ReplayedEditIsIgnored ==
  [][/\ \A s \in Sources, x \in SweepTextIds :
          (/\ last'.op = "edit" /\ last'.outcome = "Revised"
           /\ _on_message_edited(s[1], s[2], x))
          => /\ store'[get_signal_by_remote_id(store', s[1], s[2])].content_hash
                  = Fingerprint(x)
             /\ \A t \in {now, now + DuplicateWindow, MaxSweepTime}, v \in MaxSlValues :
                  Replay(store', s[1], s[2], x, t, v)
                    = [store |-> store', outcome |-> "UnchangedEdit"]
     /\ \A s \in Sources, x \in SweepTextIds :
          (/\ last'.op = "edit"
           /\ get_signal_by_remote_id(store, s[1], s[2]) > 0
           /\ store[get_signal_by_remote_id(store, s[1], s[2])].content_hash = Fingerprint(x)
           /\ _on_message_edited(s[1], s[2], x))
          => last'.outcome = "UnchangedEdit" /\ store' = store]_vars

(* A revised record, still MODIFY, whose edit was delivered again after   *)
(* the clock had moved on: its updated_at is that of the revision.        *)
C30_Witness ==
  /\ last = Event("edit", "UnchangedEdit")
  /\ Len(store) = 1 /\ store[1].status = "MODIFY"
  /\ store[1].content_hash = Fingerprint(3)
  /\ store[1].updated_at < now

(* ------------------------- absorbing statuses ------------------------- *)
(* C31: once a record is DONE or EXPIRED no new-message, edit or sweep    *)
(* step sets its status back to PROCESS or MODIFY.                        *)
C31_DoneAndExpiredAreAbsorbing ==
  [][last'.op \in {"new", "edit", "sweep"} =>
       \A i \in 1..Len(store) :
          store[i].status \in {"DONE", "EXPIRED"}
            => store'[i].status \notin {"PROCESS", "MODIFY"}]_vars

(* An edit revised a record after its validity window had passed and the  *)
(* record is MODIFY, next to a record that the sweeper expired.           *)
C31_Witness ==
  /\ last = Event("edit", "Revised") /\ Len(store) = 2
  /\ store[1].status = "MODIFY" /\ store[1].updated_at = now
  /\ store[1].created_at + ExpiryWindow < now
  /\ store[2].status = "EXPIRED"

(* ----------------------- what the consumer reads --------------------- *)
ConsumerFields ==
  {"symbol", "direction", "entry_min", "entry_max", "stop_loss",
   "take_profit_1", "take_profit_2", "take_profit_3"}

(* C32: whenever an edit is accepted as Revised, the record it sets to    *)
(* MODIFY differs from what it was before the edit in at least one of     *)
(* symbol, direction, entry_min, entry_max, stop_loss, take_profit_1,     *)
(* take_profit_2, take_profit_3.                                          *)
C32_RevisedChangesConsumerFields ==
  [][(last'.op = "edit" /\ last'.outcome = "Revised") =>
       \A i \in 1..Len(store) :
          store'[i] # store[i] => \E f \in ConsumerFields : store'[i][f] # store[i][f]]_vars

(* A record revised to the message with a fourth take-profit of 2050: its *)
(* fingerprint covers four take-profits, its fields hold the first three. *)
C32_Witness ==
  /\ last = Event("edit", "Revised") /\ Len(store) = 1
  /\ store[1].status = "MODIFY" /\ store[1].raw_message = 9
  /\ Len(store[1].content_hash[6]) = 4
  /\ store[1].take_profit_3 = 203050

(* ------------------- duplicates of revised records ------------------- *)
(* C33: whenever a new message is accepted as a new record, no record     *)
(* already in the store carries the same fingerprint and was created, or  *)
(* revised to that fingerprint, less than 5 seconds earlier.              *)
C33_NoRecentRecordWithSameFingerprint ==
  [][(last'.op = "new" /\ last'.outcome = "Accepted") =>
       \A i \in 1..Len(store) :
          store[i].content_hash = store'[Len(store')].content_hash
            => ~(now - store[i].updated_at < DuplicateWindow)]_vars

(* A new message was accepted while the other record, created 5 seconds   *)
(* or more before, had been revised to the same fingerprint less than 5   *)
(* seconds before.                                                        *)
C33_Witness ==
  /\ last = Event("new", "Accepted") /\ Len(store) = 2
  /\ store[2].created_at = now
  /\ store[1].content_hash = store[2].content_hash
  /\ store[1].status = "MODIFY"
  /\ now - store[1].created_at >= DuplicateWindow
  /\ now - store[1].updated_at < DuplicateWindow

(* ---------------------------- pre-filter ------------------------------ *)
(* C34: a text that the extractor turns into a candidate passes the       *)
(* keyword pre-filter: no handler step that is given such a text ends as  *)
(* NotPotential.                                                          *)
C34_PreFilterNotStricterThanExtractor ==
  [][last'.outcome = "NotPotential" =>
       \A s \in Sources, x \in TextIds, e \in BOOLEAN :
          (/\ ~Texts[x].blank /\ Candidate(x).ok
           /\ last'.op = (IF e THEN "edit" ELSE "new"))
          => ~_process_event_safely(s[1], s[2], x, e)]_vars

(* An edit of a stored message was dropped by the pre-filter although     *)
(* the extractor reads its text, spelled "XAU/USD", as an XAUUSD signal.  *)
C34_Witness ==
  /\ last = Event("edit", "NotPotential") /\ Len(store) = 1
  /\ Candidate(6).ok /\ Candidate(6).symbol = "XAUUSD"
  /\ ~_is_potential_signal(Texts[6])

(* --------------------------- one-line texts --------------------------- *)
(* The position of the first take-profit keyword of a line, 0 if none.    *)
FirstTpKeyword(line) == Least({j \in 1..Len(line) : IsWord(line[j], TakeProfitWords)})

ValuesFrom(line, from) == {line[j].n : j \in {i \in from..Len(line) : IsNum(line[i])}}

ValuesBefore(line, k) == {line[j].n : j \in {i \in 1..(k - 1) : IsNum(line[i])}}

TakeProfitValues(p) == {Unshifted(p)[i] : i \in 1..Len(p.take_profits)}

(* C35: for a text of one line that yields a candidate, every take-profit *)
(* is a number written after the take-profit keyword of the line, and a   *)
(* number written before the keyword (the entry, the stop-loss) is not    *)
(* among the take-profits unless it is written again after the keyword.   *)
C35_OnlyNumbersAfterKeyword ==
  (last.op = "parse" /\ last.outcome = "Candidate" /\ Len(last.text) = 1) =>
    LET line == last.text[1]
        k == FirstTpKeyword(line)
    IN  /\ k # 0
        /\ TakeProfitValues(last.candidate) \subseteq ValuesFrom(line, k + 1)
        /\ \A v \in ValuesBefore(line, k) \ ValuesFrom(line, k + 1) :
              v \notin TakeProfitValues(last.candidate)

(* A one-line text with entry 2000 and stop-loss 1990 before the keyword  *)
(* and 2010 after it gave a candidate with the single take-profit 2010.   *)
C35_Witness ==
  /\ last.op = "parse" /\ last.outcome = "Candidate" /\ Len(last.text) = 1
  /\ ValuesBefore(last.text[1], FirstTpKeyword(last.text[1])) = {200000, 199000}
  /\ Unshifted(last.candidate) = <<201000>>

(* --------------------------- failed sweeps ---------------------------- *)
(* C36: a sweep that hits a store error changes no record and reports 0,  *)
(* and the sweeper's task is still running after it; the task stops       *)
(* running only when shutdown cancels it.                                 *)
C36_FailedSweepDoesNotStopSweeper ==
  [][/\ last'.op = "sweep_error"
          => /\ store' = store /\ last'.outcome = "0"
             /\ expiry_checker_task' = "running"
     /\ (expiry_checker_task = "running" /\ expiry_checker_task' # "running")
          => (last'.op = "shutdown" /\ expiry_checker_task' = "cancelled")]_vars

(* A sweep failed while a record was due to expire: the record is as it   *)
(* was and the task is running.                                           *)
C36_Witness ==
  /\ last = Event("sweep_error", "0")
  /\ expiry_checker_task = "running"
  /\ \E i \in 1..Len(store) : Expirable(store[i], now)

(* ---------------------------- parser task ---------------------------- *)
(* C37: at most one parser task exists at any time (a start request       *)
(* creates no task while an earlier one has been created and has not      *)
(* finished), and is_running is false only when no parser task is alive.  *)
C37_AtMostOneParserTask ==
  /\ Cardinality(Alive) <= 1
  /\ ~parser_state.is_running => Alive = {}

(* Two start requests were served before the first task took its first   *)
(* step: both tasks are waiting in client.start().                        *)
C37_Witness ==
  /\ tasks[1].pc = "started" /\ tasks[2].pc = "started"
  /\ parser_state = [is_running |-> TRUE, task |-> 2]

====
